---- MODULE Spec2Model ----
(***************************************************************************)
(* State-machine model of devicemodel/hw/block_if.c: the per-queue request *)
(* lifecycle (freeq / pendq / busyq), the BST_BLOCK ordering interlock,    *)
(* the submit and cancel entry points, the thread-pool workers and the     *)
(* io_uring submit / reap path.                                            *)
(***************************************************************************)
EXTENDS Integers, Sequences, FiniteSets, TLC

----------------------------------------------------------------------------
(* Bounds of the model.  The source has BLOCKIF_NUMTHR = 8 workers,        *)
(* BLOCKIF_MAXREQ = 64 + BLOCKIF_NUMTHR slots and sectors of DEV_BSIZE =   *)
(* 512 bytes; all three are scaled down.                                   *)

BLOCKIF_NUMTHR == 2

QueueSlack == 1

BLOCKIF_MAXREQ == QueueSlack + BLOCKIF_NUMTHR

\* number of submit calls made by the front-end in one run
MaxSubmits == 3

\* number of writes at consecutive offsets submitted in the ordering scenario
ScenarioLen == 3

\* request offsets are 0, IovLen, ..., MaxOffUnits * IovLen
MaxOffUnits == 1

\* byte length of the single iov segment of the requests of the queue runs
IovLen == 1

\* bytes of a sector, and the sector size every descriptor is opened with
DEV_BSIZE == 4

\* sectors of the backing file
DiskSectors == 2

\* the bytes a request carries are 0..MaxByte
MaxByte == 1

\* most segments of the iov of a request of the data runs
MaxIovCnt == 2

\* most bytes of a request of the data runs that is not one whole sector
MaxXfer == 2

\* most records of a multi-range discard, and most sectors of one record
MaxRanges == 3

MaxRangeSectors == 2

\* the alignment runs: offsets up to MaxAlignOff, segments of up to
\* MaxSegLen bytes
MaxAlignOff == 5

MaxSegLen == 5

\* entries of the array blockif_process_discard gathers the ranges in; the
\* source has MAX_DISCARD_SEGMENT = 256
MAX_DISCARD_SEGMENT == 2

\* largest number of submission-queue entries io_uring_get_sqe can hand out
\* in one pass of iou_submit
MaxSqeAvail == 1

\* number of blockif_cancel calls made in one run
MaxCancels == 1

\* number of submits in one run that carry a bad qidx or meet a failing
\* posix_memalign, a failing head / tail read or an exhausted submission queue
MaxFaults == 1

\* threads that are in blockif_cancel at the same time, each on a queue of
\* its own
NumCancellers == 2

\* most turns of the wait loop of blockif_cancel one canceller takes
MaxPushes == 2

----------------------------------------------------------------------------
(* Program constants.                                                      *)

SizeofOffT == 8

ENOENT == 2

EIO == 5

E2BIG == 7

ENOMEM == 12

EBUSY == 16

EINVAL == 22

EROFS == 30

EOPNOTSUPP == 95

\* what a write through a file descriptor opened O_RDONLY fails with
EBADF == 9

\* sizeof(struct discard_range): sector u64, num_sectors u32, flags u32
SizeofRange == 16

\* value returned by blockif_init_bounced_write without a bounce buffer and
\* by blockif_cancel for an absent request
MinusOne == -1

\* bc->bq_num: one queue is opened
bq_num == 1

NULL == 0

AIO_MODE_THREAD_POOL == 0

AIO_MODE_IO_URING == 1

Slots == 1..BLOCKIF_MAXREQ

Threads == 1..BLOCKIF_NUMTHR

\* the struct blockif_req objects of the front-end
MaxReqs == IF MaxSubmits > BLOCKIF_MAXREQ + 1 THEN MaxSubmits ELSE BLOCKIF_MAXREQ + 1

ReqIds == 1..(IF MaxReqs > ScenarioLen THEN MaxReqs ELSE ScenarioLen)

Ops == {"READ", "WRITE", "FLUSH", "DISCARD"}

Offsets == {k * IovLen : k \in 0..MaxOffUnits}

----------------------------------------------------------------------------
VARIABLES
    bc,     \* struct blockif_ctxt: aio_mode, bst_block, bypass_host_cache
    bq,     \* struct blockif_queue: closing, freeq, pendq, busyq, reqs, in_flight
    mtx,    \* bq->mtx: NULL when free, else the request whose canceller holds it
    thr,    \* the worker threads: pc and the element each one works on
    ring,   \* io_uring: entries owned by the kernel, and the completion queue
    nreq,   \* number of struct blockif_req submitted so far
    br,     \* the caller-owned requests, with the history kept about each
    used,   \* how many cancel calls and faulty submits the run has had,
            \* where and what the front-end wrote in a data run, and how
            \* far the front-end's call of blockif_close has come
    disk,   \* the backing file: its bytes, and the ranges discarded from it
    sig     \* blockif_bse_head, the signal elems of the cancellers, and
            \* where each canceller and each signal handler stands

vars == <<bc, bq, mtx, thr, ring, nreq, br, used, disk, sig>>

----------------------------------------------------------------------------
(* Helpers on TAILQ lists, kept as sequences of slot indices.              *)

RECURSIVE SeqSum(_)
SeqSum(s) ==
    IF s = <<>> THEN 0 ELSE Head(s) + SeqSum(Tail(s))

InSeq(x, s) ==
    \E i \in 1..Len(s) : s[i] = x

\* TAILQ_REMOVE
TailqRemove(s, x) ==
    SelectSeq(s, LAMBDA y : y # x)

MinOf(S) ==
    CHOOSE x \in S : \A y \in S : x <= y

\* 1 << n
Shl1(n) ==
    2 ^ n

----------------------------------------------------------------------------
(* Queue primitives.  q is the queue record, c the context record, brs the *)
(* request table (a slot's req field indexes it).                          *)

\* a slot as blockif_open leaves it
FreeElem ==
    [req |-> NULL, op |-> "READ", status |-> "FREE", tid |-> 0, block |-> 0]

\* the overlap key stored in be->block
BlockKey(breq, op) ==
    IF op \in {"READ", "WRITE", "DISCARD"}
    THEN breq.offset + SeqSum(breq.iov)
    ELSE Shl1(SizeofOffT - 1)

\* the two TAILQ_FOREACH scans of blockif_enqueue: some element of pendq,
\* or else of busyq, carries a key equal to the new request's offset
BlockedBy(q, off) ==
    \/ \E i \in 1..Len(q.pendq) : q.reqs[q.pendq[i]].block = off
    \/ \E i \in 1..Len(q.busyq) : q.reqs[q.busyq[i]].block = off

blockif_enqueue(q, c, breq, r, op) ==
    LET be == IF q.freeq = <<>> THEN NULL ELSE Head(q.freeq) IN
    IF be = NULL
    THEN [bq |-> q, ret |-> 0]
    ELSE IF q.reqs[be].status # "FREE"
    THEN [bq |-> q, ret |-> 0]
    ELSE
        LET st  == IF c.bst_block = 1 /\ BlockedBy(q, breq.offset)
                   THEN "BLOCK" ELSE "PEND"
            blk == IF c.bst_block = 1 THEN BlockKey(breq, op)
                   ELSE q.reqs[be].block
            nbe == [req |-> r, op |-> op, status |-> st,
                    tid |-> q.reqs[be].tid, block |-> blk]
        IN  [bq  |-> [q EXCEPT !.freeq = Tail(@),
                               !.reqs[be] = nbe,
                               !.pendq = Append(@, be)],
             ret |-> IF st = "PEND" THEN 1 ELSE 0]

\* a scan of pendq that picks the last PEND element
LastPend(q) ==
    LET idx == {i \in 1..Len(q.pendq) : q.reqs[q.pendq[i]].status = "PEND"} IN
    IF idx = {} THEN NULL ELSE q.pendq[-MinOf({-i : i \in idx})]

\* the element blockif_dequeue picks: the first one of pendq that is PEND
FirstPend(q) ==
    LET idx == {i \in 1..Len(q.pendq) : q.reqs[q.pendq[i]].status = "PEND"} IN
    IF idx = {} THEN NULL ELSE q.pendq[MinOf(idx)]

\* blockif_dequeue that moves the element without marking it BUSY
DequeueKeepsStatus(q, t) ==
    LET be == FirstPend(q) IN
    IF be = NULL
    THEN [bq |-> q, be |-> NULL]
    ELSE [bq |-> [q EXCEPT !.pendq = TailqRemove(@, be),
                           !.reqs[be].tid = t,
                           !.busyq = Append(@, be)],
          be |-> be]

blockif_dequeue(q, t) ==
    LET be == FirstPend(q) IN
    IF be = NULL
    THEN [bq |-> q, be |-> NULL]
    ELSE [bq |-> [q EXCEPT !.pendq = TailqRemove(@, be),
                           !.reqs[be].status = "BUSY",
                           !.reqs[be].tid = t,
                           !.busyq = Append(@, be)],
          be |-> be]

\* blockif_complete unlinking from busyq whatever the status
UnlinkFromBusyq(q, be) ==
    [q EXCEPT !.busyq = TailqRemove(@, be)]

\* the list blockif_complete unlinks the element from
UnlinkOnComplete(q, be) ==
    IF q.reqs[be].status \in {"DONE", "BUSY"}
    THEN [q EXCEPT !.busyq = TailqRemove(@, be)]
    ELSE [q EXCEPT !.pendq = TailqRemove(@, be)]

\* blockif_complete that promotes every element of pendq
UnblockedAll(q, c, brs, be) ==
    {s \in Slots : InSeq(s, q.pendq)}

\* blockif_complete that promotes no element
UnblockedNone(q, c, brs, be) ==
    {}

\* the elements of pendq blockif_complete sets to PEND
Unblocked(q, c, brs, be) ==
    IF c.bst_block = 1
    THEN {s \in Slots : /\ InSeq(s, q.pendq)
                        /\ brs[q.reqs[s].req].offset = q.reqs[be].block}
    ELSE {}

blockif_complete(q, c, brs, be) ==
    LET q1 == UnlinkOnComplete(q, be)
        up == Unblocked(q1, c, brs, be)
    IN  [q1 EXCEPT
            !.reqs = [s \in Slots |->
                        IF s = be
                        THEN FreeElem
                        ELSE IF s \in up
                        THEN [q1.reqs[s] EXCEPT !.status = "PEND"]
                        ELSE q1.reqs[s]],
            !.freeq = Append(@, be)]

----------------------------------------------------------------------------------------------------------------------------------------
(* Memory and the backing file.  A buffer is a sequence of bytes; the byte *)
(* at file offset p is bytes[p + 1].                                       *)

\* n bytes of value v
Fill(n, v) ==
    [i \in 1..n |-> v]

\* the n bytes that follow the first off ones
Slice(bytes, off, n) ==
    [i \in 1..n |-> bytes[off + i]]

\* bytes with data laid over it from offset off on
Overlay(bytes, off, data) ==
    [i \in 1..Len(bytes) |->
        IF i > off /\ i <= off + Len(data) THEN data[i - off] ELSE bytes[i]]

\* the segments of an iov one after the other
RECURSIVE Gather(_)
Gather(buf) ==
    IF buf = <<>> THEN <<>> ELSE Head(buf) \o Gather(Tail(buf))

\* data dealt out to segments of the given lengths, in order
RECURSIVE Scatter(_, _)
Scatter(lens, data) ==
    IF lens = <<>> THEN <<>>
    ELSE <<SubSeq(data, 1, Head(lens))>>
         \o Scatter(Tail(lens), SubSeq(data, Head(lens) + 1, Len(data)))

\* preadv: rc is 0 or the errno it fails with; into is what the buffer held
preadv(d, off, into, rc) ==
    IF rc # 0 THEN [len |-> -1, data |-> into]
    ELSE [len |-> Len(into), data |-> Slice(d.bytes, off, Len(into))]

\* pwritev and the kernel's write of a ring entry; a descriptor opened
\* read-only has a file opened O_RDONLY, through which no write succeeds
pwritev(c, d, off, data, rc) ==
    IF c.rdonly = 1 THEN [len |-> -1, errno |-> EBADF, disk |-> d]
    ELSE IF rc # 0 THEN [len |-> -1, errno |-> rc, disk |-> d]
    ELSE [len |-> Len(data), errno |-> 0,
          disk |-> [d EXCEPT !.bytes = Overlay(@, off, data)]]

\* fsync whatever the write cache setting
FlushCacheAlways(c, rcSync) ==
    [err |-> rcSync, calls |-> << <<"fsync", rcSync>> >>]

\* fsync when the write cache is off: err, and the call made on the file
blockif_flush_cache(c, rcSync) ==
    IF c.wce = 0
    THEN [err |-> rcSync, calls |-> << <<"fsync", rcSync>> >>]
    ELSE [err |-> 0, calls |-> <<>>]

----------------------------------------------------------------------------
(* Alignment information and the bounce buffer of a request.               *)

\* the fields of br_align_info a request needs no conversion leaves unset
NoInfo ==
    [need_conversion |-> FALSE, head |-> 0, tail |-> 0, org_size |-> 0,
     aligned_dn_start |-> 0, aligned_dn_end |-> 0, bounced_size |-> 0]

\* the alignment info with a tail area computed without the test of
\* end_rmd against 0
AlignmentInfoTailAlways(c, off, iov, base) ==
    IF ~c.bypass_host_cache
    THEN NoInfo
    ELSE
        LET alignment == c.sectsz
            start     == off + c.sub_file_start_lba
            lens_ok   == \A i \in 1..Len(iov) : iov[i] % alignment = 0
            bases_ok  == \A i \in 1..Len(base) : base[i] % alignment = 0
            aligned   == (start % alignment = 0) /\ bases_ok /\ lens_ok
            org_size  == SeqSum(iov)
            head      == start % alignment
            end       == start + org_size
            end_rmd   == end % alignment
            tail      == alignment - end_rmd
        IN  IF aligned
            THEN NoInfo
            ELSE [need_conversion |-> TRUE,
                  head |-> head,
                  tail |-> tail,
                  org_size |-> org_size,
                  aligned_dn_start |-> start - head,
                  aligned_dn_end |-> end - end_rmd,
                  bounced_size |-> head + org_size + tail]

\* iov: the segment lengths; base: the segment addresses modulo the
\* alignment
blockif_init_alignment_info(c, off, iov, base) ==
    IF ~c.bypass_host_cache
    THEN NoInfo
    ELSE
        LET alignment == c.sectsz
            start     == off + c.sub_file_start_lba
            lens_ok   == \A i \in 1..Len(iov) : iov[i] % alignment = 0
            bases_ok  == \A i \in 1..Len(base) : base[i] % alignment = 0
            aligned   == (start % alignment = 0) /\ bases_ok /\ lens_ok
            org_size  == SeqSum(iov)
            head      == start % alignment
            end       == start + org_size
            end_rmd   == end % alignment
            tail      == IF end_rmd = 0 THEN 0 ELSE alignment - end_rmd
        IN  IF aligned
            THEN NoInfo
            ELSE [need_conversion |-> TRUE,
                  head |-> head,
                  tail |-> tail,
                  org_size |-> org_size,
                  aligned_dn_start |-> start - head,
                  aligned_dn_end |-> end - end_rmd,
                  bounced_size |-> head + org_size + tail]

\* a request table entry before the front-end has filled it in; the
\* front-end hands over requests whose bounce_iov.iov_base is NULL.
\* iov, base and buf are the lengths, the addresses and the contents of the
\* segments, bbuf the contents of the bounce buffer, err what the callback
\* was called with, fail what a call on the backing file failed with,
\* calls the calls a WRITE made on the backing file, in order.
NoReq ==
    [offset |-> 0, iov |-> <<>>, base |-> <<>>, buf |-> <<>>, resid |-> 0,
     ranges |-> <<>>, qidx |-> 0, ret |-> 0,
     need_conversion |-> FALSE, align_info |-> NoInfo,
     bounce |-> NULL, bbuf |-> <<>>, cbs |-> 0, ios |-> 0,
     cret |-> <<>>, err |-> <<>>, fail |-> <<>>, calls |-> <<>>]

\* rc is what posix_memalign returned; the value left in bounce_iov.iov_base
blockif_init_bounce_iov(rc, old_base) ==
    [ret |-> rc, base |-> IF rc # 0 THEN old_base ELSE 1]

\* the memory posix_memalign hands out holds junk
BounceMemory(info, rc, junk) ==
    IF rc # 0 THEN <<>> ELSE Fill(info.bounced_size, junk)

\* blockif_read_head_or_tail_area: the area read at offset, junk where the
\* read failed, and no area at all where posix_memalign did
blockif_read_head_or_tail_area(d, offset, alignment, rc, junk) ==
    IF rc = ENOMEM THEN [ret |-> rc, area |-> <<>>]
    ELSE LET rd == preadv(d, offset, Fill(alignment, junk), rc) IN
         [ret |-> rc, area |-> rd.data]

\* rcHead / rcTail are what blockif_read_head_or_tail_area returned
blockif_init_bounced_write(base, info, rcHead, rcTail) ==
    IF base = NULL
    THEN MinusOne
    ELSE
        LET r1 == IF info.head # 0 THEN rcHead ELSE 0 IN
        IF info.head # 0 /\ r1 < 0
        THEN r1
        ELSE IF info.tail # 0 THEN rcTail ELSE r1

\* the bounce buffer blockif_init_bounced_write builds: the head of the head
\* area, the segments of the request, the tail of the tail area; an area
\* that was not allocated is left out and the rest moves up
BouncedWrite(c, d, breq, info, bbuf, rcHead, rcTail, junk) ==
    LET alignment == c.sectsz
        ha == IF info.head # 0
              THEN blockif_read_head_or_tail_area(
                       d, info.aligned_dn_start, alignment, rcHead, junk).area
              ELSE <<>>
        ta == IF info.tail # 0
              THEN blockif_read_head_or_tail_area(
                       d, info.aligned_dn_end, alignment, rcTail, junk).area
              ELSE <<>>
        hd == IF ha = <<>> THEN <<>> ELSE SubSeq(ha, 1, info.head)
        tl == IF ta = <<>> THEN <<>>
              ELSE SubSeq(ta, alignment - info.tail + 1, alignment)
    IN  Overlay(bbuf, 0, hd \o Gather(breq.buf) \o tl)

\* the segments of the request filled from the bounce buffer
blockif_complete_bounced_read(breq) ==
    IF breq.bounce = NULL THEN breq
    ELSE [breq EXCEPT !.buf = Scatter(breq.iov,
                                      Slice(breq.bbuf, breq.align_info.head,
                                            breq.align_info.org_size))]

blockif_deinit_bounce_iov(brs, r) ==
    IF brs[r].bounce = NULL THEN brs
    ELSE [brs EXCEPT ![r].bounce = NULL, ![r].bbuf = <<>>]

\* (*br->callback)(br, err): the front-end takes the completion and the
\* request memory is its own again; only the history of the request, what
\* its segments hold, its resid and a bounce buffer nobody freed are kept
Callback(brs, r, err) ==
    [brs EXCEPT ![r] = [NoReq EXCEPT !.ret = brs[r].ret,
                                     !.buf = brs[r].buf,
                                     !.resid = brs[r].resid,
                                     !.bounce = brs[r].bounce,
                                     !.bbuf = brs[r].bbuf,
                                     !.cbs = brs[r].cbs + 1,
                                     !.ios = brs[r].ios,
                                     !.cret = brs[r].cret,
                                     !.err = <<err>>,
                                     !.fail = brs[r].fail,
                                     !.calls = brs[r].calls]]

\* the transfer of the request is issued against the backing file
IssueIo(brs, r) ==
    [brs EXCEPT ![r].ios = @ + 1]

----------------------------------------------------------------------------
(* Discard.                                                                *)

discard_range_validate(c, start, size) ==
    LET start_sector == start \div DEV_BSIZE
        size_sector  == size \div DEV_BSIZE
    IN  IF size = 0 \/ start + size > c.size + c.sub_file_start_lba
        THEN MinusOne
        ELSE IF \/ size_sector > c.max_discard_sectors
                \/ /\ c.discard_sector_alignment # 0
                   /\ start_sector % c.discard_sector_alignment # 0
        THEN MinusOne
        ELSE 0

\* arg[i] of the multi-range convention, records counted from 1
DiscardArg(c, range) ==
    <<range.sector * DEV_BSIZE + c.sub_file_start_lba,
      range.num_sectors * DEV_BSIZE>>

\* the gathering loop of blockif_process_discard from record i on: 0 when
\* it runs to its end, EINVAL when it returns
RECURSIVE DiscardGather(_, _, _, _)
DiscardGather(c, ranges, i, n_range) ==
    IF i > n_range THEN 0
    ELSE IF i > c.max_discard_seg THEN EINVAL
    ELSE IF discard_range_validate(c, DiscardArg(c, ranges[i])[1],
                                   DiscardArg(c, ranges[i])[2]) # 0
    THEN EINVAL
    ELSE DiscardGather(c, ranges, i + 1, n_range)

\* the gathering loop stores record i into arg before it tests anything
\* about it: the records the loop gets to are those whose predecessors all
\* passed; one beyond MAX_DISCARD_SEGMENT is stored outside the array
DiscardOverrun(c, ranges, n_range) ==
    \E i \in (MAX_DISCARD_SEGMENT + 1)..n_range :
        DiscardGather(c, ranges, 1, i - 1) = 0

\* the executing loop over the gathered ranges args; rcs[i] is what the
\* ioctl, or fallocate and fdatasync, of range i returned, and fallocate
\* returns -1 for a length of 0.  A discarded range reads as zeroes
RECURSIVE DiscardRun(_, _, _, _)
DiscardRun(d, args, rcs, i) ==
    IF i > Len(args) THEN [err |-> 0, disk |-> d]
    ELSE IF rcs[i] # 0 THEN [err |-> rcs[i], disk |-> d]
    ELSE IF args[i][2] = 0 THEN [err |-> MinusOne, disk |-> d]
    ELSE DiscardRun(
             [d EXCEPT !.bytes = Overlay(@, args[i][1], Fill(args[i][2], 0)),
                       !.punched = Append(@, args[i])],
             args, rcs, i + 1)

\* smash: whether a store outside arg ends the process (it overwrites what
\* lies above the array on the stack) or goes unnoticed
blockif_process_discard(c, d, breq, rcs, smash) ==
    LET keep == [err |-> 0, disk |-> d, resid |-> breq.resid,
                 abort |-> FALSE, fail |-> 0]
    IN
    IF c.candiscard = 0 THEN [keep EXCEPT !.err = EOPNOTSUPP]
    ELSE IF c.rdonly = 1 THEN [keep EXCEPT !.err = EROFS]
    ELSE IF Len(breq.iov) = 1
    THEN LET n_range == breq.iov[1] \div SizeofRange
             chk     == DiscardGather(c, breq.ranges, 1, n_range)
         IN  IF DiscardOverrun(c, breq.ranges, n_range) /\ smash
             THEN [keep EXCEPT !.abort = TRUE]
             ELSE IF chk # 0
             THEN [keep EXCEPT !.err = chk]
             ELSE LET run == DiscardRun(
                                 d, [i \in 1..n_range |->
                                        DiscardArg(c, breq.ranges[i])],
                                 rcs, 1)
                  IN  [err |-> run.err, disk |-> run.disk,
                       resid |-> IF run.err = 0 THEN 0 ELSE breq.resid,
                       abort |-> FALSE, fail |-> run.err]
    ELSE LET run == DiscardRun(
                        d, <<<<breq.offset + c.sub_file_start_lba,
                               breq.resid>>>>, rcs, 1)
         IN  [err |-> run.err, disk |-> run.disk,
              resid |-> IF run.err = 0 THEN 0 ELSE breq.resid,
              abort |-> FALSE, fail |-> run.err]

----------------
(* Initial state: blockif_open has built the context and the queue.        *)

\* the threads that call blockif_cancel, each on a queue of its own
Cancellers == 1..NumCancellers

\* blockif_bse_head is NULL, no canceller is in the wait loop of
\* blockif_cancel and no worker has a SIGCONT to handle.  A signal elem is
\* named after the canceller in whose stack frame it lives; pushes and
\* pops count how often it was pushed and completed (pops up to one more
\* than MaxPushes), and a local that is dead holds NULL.
NoSignal ==
    [head |-> NULL,
     bse  |-> [c \in Cancellers |-> [next |-> NULL, pending |-> 0]],
     can  |-> [c \in Cancellers |->
                 [pc |-> "idle", old_head |-> NULL, pushes |-> 0, pops |-> 0]],
     hdl  |-> [t \in Threads |->
                 [pc |-> "idle", bse |-> NULL, next |-> NULL,
                  signalled |-> FALSE]]]

\* TAILQ_INSERT_HEAD of reqs[0], reqs[1], ... leaves the last one first
InitFreeq ==
    [i \in 1..BLOCKIF_MAXREQ |-> BLOCKIF_MAXREQ + 1 - i]

\* the context blockif_open builds for backend m, with bst_block b, nocache
\* n, ro, writeback wce, and dis the tunables of the discard option (<<>>
\* without it); the ring backend turns bst_block off
Opened(m, b, n, ro, wce, dis) ==
    [aio_mode |-> m,
     bst_block |-> IF m = AIO_MODE_IO_URING THEN 0 ELSE b,
     bypass_host_cache |-> n,
     sectsz |-> DEV_BSIZE, sub_file_start_lba |-> 0,
     sub_file_assign |-> 0, fl |-> "none",
     size |-> DiskSectors * DEV_BSIZE,
     rdonly |-> ro, wce |-> wce,
     candiscard |-> IF dis = <<>> THEN 0 ELSE 1,
     max_discard_sectors |-> IF dis = <<>> THEN 0 ELSE dis[1],
     max_discard_seg |-> IF dis = <<>> THEN 0 ELSE dis[2],
     discard_sector_alignment |-> IF dis = <<>> THEN 0 ELSE dis[3]]

\* the queue, the workers and the ring as blockif_open leaves them, and a
\* backing file that holds the given bytes
Started(bytes) ==
    /\ bq = [closing |-> FALSE, freeq |-> InitFreeq, pendq |-> <<>>,
             busyq |-> <<>>, in_flight |-> 0,
             reqs |-> [s \in Slots |-> FreeElem]]
    /\ mtx = NULL
    /\ thr = [t \in Threads |->
                [pc |-> IF bc.aio_mode = AIO_MODE_THREAD_POOL
                        THEN "run" ELSE "none",
                 be |-> NULL]]
    /\ ring = [kernel |-> {}, cq |-> <<>>]
    /\ nreq = 0
    /\ br = [r \in ReqIds |-> NoReq]
    /\ used = [cancels |-> 0, faults |-> 0, at |-> 0, data |-> <<>>,
               req |-> NoReq, close |-> "none"]
    /\ disk = [bytes |-> bytes, punched |-> <<>>]
    /\ sig = NoSignal

\* a descriptor opened writable, with writeback and with discard of up to
\* the whole file in one range, over a file of zeroes
Init ==
    /\ bc \in {Opened(m, b, n, 0, 1, <<DiskSectors, 1, 0>>) :
               m \in {AIO_MODE_THREAD_POOL, AIO_MODE_IO_URING},
               b \in {0, 1}, n \in BOOLEAN}
    /\ Started(Fill(DiskSectors * DEV_BSIZE, 0))

----------------------------------------------------------------------------
(* Thread-pool backend.                                                    *)

\* the head of the for (;;) loop of blockif_thr, entered with the mutex
\* held: dequeue and leave to process, or exit when closing, or wait
thr_loop(q, t) ==
    LET d == blockif_dequeue(q, t) IN
    IF d.be # NULL
    THEN [bq |-> d.bq, th |-> [pc |-> "proc", be |-> d.be]]
    ELSE IF q.closing
    THEN [bq |-> q, th |-> [pc |-> "exit", be |-> NULL]]
    ELSE [bq |-> q, th |-> [pc |-> "wait", be |-> NULL]]

\* a worker that starts, or returns from pthread_cond_wait, takes the mutex
blockif_thr_run(t) ==
    /\ thr[t].pc = "run"
    /\ mtx = NULL
    /\ \E n \in {thr_loop(bq, t)} :
        /\ bq' = n.bq
        /\ thr' = [thr EXCEPT ![t] = n.th]
    /\ UNCHANGED <<sig, bc, mtx, ring, nreq, br, used, disk>>

\* the process is gone: a store outside an array has ended it
Aborted(th) ==
    \E t \in Threads : th[t].pc = "abort"

Abort(th) ==
    [t \in Threads |-> [pc |-> "abort", be |-> NULL]]

\* what the host does with the calls of one step: rc is 0 or the errno of
\* preadv, pwritev or fsync, rcSync that of the fsync of
\* blockif_flush_cache, rcs[i] what the discard of range i returned, smash
\* whether a store outside an array ends the process
NoFault ==
    [rc |-> 0, rcSync |-> 0, rcs |-> [i \in 1..MaxRanges |-> 0],
     smash |-> FALSE]

\* request breq with the failure of a call on the backing file noted
Failed(breq, code) ==
    IF code = 0 THEN breq ELSE [breq EXCEPT !.fail = <<code>>]

\* the switch of blockif_proc on request breq: what the request, the file
\* and err are after it
ProcOp(c, d, breq, op, h) ==
    LET info == breq.align_info
        conv == breq.need_conversion
        off  == IF conv THEN info.aligned_dn_start
                ELSE breq.offset + c.sub_file_start_lba
        done == [breq |-> breq, disk |-> d, err |-> 0, abort |-> FALSE]
    IN
    CASE op = "READ" ->
           LET rd == preadv(d, off,
                            IF conv THEN breq.bbuf ELSE Gather(breq.buf),
                            h.rc)
               b1 == IF conv
                     THEN blockif_complete_bounced_read(
                              [breq EXCEPT !.bbuf = rd.data])
                     ELSE [breq EXCEPT !.buf = Scatter(breq.iov, rd.data)]
           IN  [done EXCEPT
                  !.breq = IF rd.len < 0 THEN Failed(b1, h.rc)
                           ELSE [b1 EXCEPT !.resid = @ - rd.len],
                  !.err = IF rd.len < 0 THEN h.rc ELSE 0]
      [] op = "WRITE" ->
           IF c.rdonly = 1 THEN [done EXCEPT !.err = EROFS]
           ELSE
           LET wr == pwritev(c, d, off,
                             IF conv THEN breq.bbuf ELSE Gather(breq.buf),
                             h.rc)
               fl == blockif_flush_cache(c, h.rcSync)
               b1 == [breq EXCEPT !.calls = @ \o << <<"pwritev", wr.errno>> >>]
           IN  [done EXCEPT
                  !.breq = IF wr.len < 0 THEN Failed(b1, wr.errno)
                           ELSE Failed([b1 EXCEPT !.resid = @ - wr.len,
                                                  !.calls = @ \o fl.calls],
                                       fl.err),
                  !.disk = wr.disk,
                  !.err = IF wr.len < 0 THEN wr.errno ELSE fl.err]
      [] op = "FLUSH" ->
           [done EXCEPT !.breq = Failed(breq, h.rc), !.err = h.rc]
      [] op = "DISCARD" ->
           LET dc == blockif_process_discard(c, d, breq, h.rcs, h.smash) IN
           [done EXCEPT !.breq = Failed([breq EXCEPT !.resid = dc.resid],
                                        dc.fail),
                        !.disk = dc.disk,
                        !.err = dc.err,
                        !.abort = dc.abort]

\* blockif_proc, run without the mutex: the transfer, the release of the
\* bounce buffer, status DONE and the callback
blockif_proc(t, h) ==
    /\ thr[t].pc = "proc"
    /\ \E po \in {ProcOp(bc, disk, br[bq.reqs[thr[t].be].req],
                           bq.reqs[thr[t].be].op, h)} :
       LET be == thr[t].be
           r  == bq.reqs[be].req
           op == bq.reqs[be].op
           b1 == IssueIo([br EXCEPT ![r] = po.breq], r)
           b2 == IF op \in {"READ", "WRITE"} /\ br[r].need_conversion
                    /\ ~(op = "WRITE" /\ bc.rdonly = 1)
                 THEN blockif_deinit_bounce_iov(b1, r) ELSE b1
       IN  IF po.abort
           THEN /\ thr' = Abort(thr)
                /\ UNCHANGED <<sig, bq, br, disk>>
           ELSE /\ bq' = [bq EXCEPT !.reqs[be].status = "DONE"]
                /\ br' = Callback(b2, r, po.err)
                /\ disk' = po.disk
                /\ thr' = [thr EXCEPT ![t].pc = "comp"]
    /\ UNCHANGED <<sig, bc, mtx, ring, nreq, used>>

\* a worker that completes the element without taking the mutex
CompleteUnlocked(t) ==
    /\ thr[t].pc = "comp"
    /\ \E n \in {thr_loop(blockif_complete(bq, bc, br, thr[t].be), t)} :
           /\ bq' = n.bq
           /\ thr' = [thr EXCEPT ![t] = n.th]
    /\ UNCHANGED <<sig, bc, mtx, ring, nreq, br, used, disk>>

\* the worker retakes the mutex, completes the element and loops
blockif_thr_complete(t) ==
    /\ thr[t].pc = "comp"
    /\ mtx = NULL
    /\ \E n \in {thr_loop(blockif_complete(bq, bc, br, thr[t].be), t)} :
           /\ bq' = n.bq
           /\ thr' = [thr EXCEPT ![t] = n.th]
    /\ UNCHANGED <<sig, bc, mtx, ring, nreq, br, used, disk>>

\* one step of worker thread t, whichever its position allows
blockif_thr(t) ==
    \/ blockif_thr_run(t)
    \/ blockif_proc(t, NoFault)
    \/ blockif_thr_complete(t)

\* the threads pthread_cond_signal may wake
Waiters(th) ==
    {t \in Threads : th[t].pc = "wait"}

\* thread_pool_request without the pthread_cond_signal
RequestWithoutSignal(th, w) ==
    th

\* thread_pool_request: w is the waiter the signal wakes (NULL: none waits)
thread_pool_request(th, w) ==
    IF w = NULL THEN th ELSE [th EXCEPT ![w].pc = "run"]

----------------------------------------------------------------------------
(* io_uring backend.  st is [bq, ring, br]: what one pass may change.      *)

is_io_uring_supported_op(op) ==
    op \in {"READ", "WRITE", "FLUSH"}

\* iou_submit_sqe when io_uring_get_sqe handed out an entry
iou_submit_sqe(st, be) ==
    [st EXCEPT !.bq.in_flight = @ + 1,
               !.ring.kernel = @ \cup {be},
               !.br = IssueIo(@, st.bq.reqs[be].req)]

\* the branch of iou_submit for an operation the ring does not support
iou_submit_inline(st, c, be, h) ==
    LET r  == st.bq.reqs[be].req
        dc == blockif_process_discard(c, st.disk, st.br[r], h.rcs, h.smash)
        b0 == [st.br EXCEPT ![r] = Failed([@ EXCEPT !.resid = dc.resid],
                                          dc.fail)]
        b1 == IF st.bq.reqs[be].op = "DISCARD" THEN IssueIo(b0, r) ELSE st.br
        q1 == [st.bq EXCEPT !.reqs[be].status = "DONE"]
        b2 == Callback(b1, r, IF st.bq.reqs[be].op = "DISCARD"
                              THEN dc.err ELSE EINVAL)
    IN  IF st.bq.reqs[be].op = "DISCARD" /\ dc.abort
        THEN [st EXCEPT !.abort = TRUE]
        ELSE [st EXCEPT !.bq = blockif_complete(q1, c, b2, be),
                        !.br = b2,
                        !.disk = IF st.bq.reqs[be].op = "DISCARD"
                                 THEN dc.disk ELSE @]

\* avail: how many times io_uring_get_sqe still succeeds in this pass
RECURSIVE iou_submit(_, _, _, _)
iou_submit(st, c, avail, h) ==
    LET d == blockif_dequeue(st.bq, 0) IN
    IF d.be = NULL \/ st.abort
    THEN st
    ELSE
        LET s1 == [st EXCEPT !.bq = d.bq] IN
        IF is_io_uring_supported_op(d.bq.reqs[d.be].op)
        THEN IF avail = 0
             THEN s1
             ELSE iou_submit(iou_submit_sqe(s1, d.be), c, avail - 1, h)
        ELSE iou_submit(iou_submit_inline(s1, c, d.be, h), c, avail, h)

\* err is the local of iou_process_completions, set only for a WRITE
RECURSIVE iou_process_completions(_, _, _, _)
iou_process_completions(st, c, err, h) ==
    IF st.ring.cq = <<>> \/ st.abort
    THEN st
    ELSE
        LET be == Head(st.ring.cq)
            r  == st.bq.reqs[be].req
            op == st.bq.reqs[be].op
            b0 == IF st.br[r].need_conversion /\ op = "READ"
                  THEN [st.br EXCEPT ![r] = blockif_complete_bounced_read(@)]
                  ELSE st.br
            b1 == IF st.br[r].need_conversion
                  THEN blockif_deinit_bounce_iov(b0, r) ELSE b0
            fl == blockif_flush_cache(c, h.rcSync)
            e1 == IF op = "WRITE" THEN fl.err ELSE err
            bf == IF op = "WRITE"
                  THEN [b1 EXCEPT ![r] =
                            Failed([b1[r] EXCEPT !.calls = @ \o fl.calls],
                                   e1)]
                  ELSE b1
            q1 == [st.bq EXCEPT !.in_flight = @ - 1,
                                !.reqs[be].status = "DONE"]
            b2 == Callback(bf, r, e1)
        IN  iou_process_completions(
                [st EXCEPT !.bq = blockif_complete(q1, c, b2, be),
                           !.ring.cq = Tail(@),
                           !.br = b2], c, e1, h)

iou_submit_and_reap(st, c, avail, h) ==
    LET s1 == iou_submit(st, c, avail, h) IN
    IF s1.bq.in_flight > 0 THEN iou_process_completions(s1, c, 0, h) ELSE s1

iou_reap_and_submit(st, c, avail, h) ==
    LET s1 == iou_process_completions(st, c, 0, h) IN
    IF s1.bq.pendq # <<>> THEN iou_submit(s1, c, avail, h) ELSE s1

\* what one pass of the ring code starts from
RingState ==
    [bq |-> bq, ring |-> ring, br |-> br, disk |-> disk, abort |-> FALSE]

\* what the kernel does for a ring entry: the transfer, with its failure
\* noted; the result goes into the res field of the completion, which the
\* engine never reads
KernelOp(c, d, breq, op, h) ==
    LET info == breq.align_info
        conv == breq.need_conversion
        off  == IF conv THEN info.aligned_dn_start
                ELSE breq.offset + c.sub_file_start_lba
    IN
    CASE op = "READ" ->
           LET rd == preadv(d, off,
                            IF conv THEN breq.bbuf ELSE Gather(breq.buf),
                            h.rc)
           IN  [breq |-> Failed(IF conv THEN [breq EXCEPT !.bbuf = rd.data]
                                ELSE [breq EXCEPT
                                        !.buf = Scatter(breq.iov, rd.data)],
                                IF rd.len < 0 THEN h.rc ELSE 0),
                disk |-> d]
      [] op = "WRITE" ->
           LET wr == pwritev(c, d, off,
                             IF conv THEN breq.bbuf ELSE Gather(breq.buf),
                             h.rc)
           IN  [breq |-> Failed([breq EXCEPT
                                   !.calls = @ \o << <<"pwritev", wr.errno>> >>],
                                wr.errno),
                disk |-> wr.disk]
      [] OTHER ->
           [breq |-> Failed(breq, h.rc), disk |-> d]

\* the kernel carries out an entry and posts its completion
io_uring_complete(be, h) ==
    /\ be \in ring.kernel
    /\ ~Aborted(thr)
    /\ \E kc \in {KernelOp(bc, disk, br[bq.reqs[be].req],
                            bq.reqs[be].op, h)} :
           /\ br' = [br EXCEPT ![bq.reqs[be].req] = kc.breq]
           /\ disk' = kc.disk
    /\ ring' = [ring EXCEPT !.kernel = @ \ {be}, !.cq = Append(@, be)]
    /\ UNCHANGED <<sig, bc, bq, mtx, thr, nreq, used>>

\* the iothread finds the ring fd readable and runs the registered callback
iou_completion_cb(avail, h) ==
    /\ bc.aio_mode = AIO_MODE_IO_URING
    /\ ~Aborted(thr)
    /\ ring.cq # <<>>
    /\ ~bq.closing
    /\ bq.pendq = <<>> => avail = MaxSqeAvail
    /\ \E s \in {iou_reap_and_submit(RingState, bc, avail, h)} :
           /\ bq' = s.bq
           /\ ring' = s.ring
           /\ br' = s.br
           /\ disk' = s.disk
           /\ thr' = IF s.abort THEN Abort(thr) ELSE thr
    /\ UNCHANGED <<sig, bc, mtx, nreq, used>>

----------------------------------------------------------------------------
(* Public request API.                                                     *)

\* the qidx test off by one
QidxValidOffByOne(qidx) ==
    qidx <= bq_num

\* the qidx test of blockif_request and blockif_cancel
QidxValid(qidx) ==
    qidx < bq_num

\* the front-end reuses the memory of every request the engine no longer
\* holds: what was recorded about a request is kept until the next submit
Recycle(brs, q) ==
    [r \in ReqIds |->
        IF \E s \in Slots : q.reqs[s].req = r THEN brs[r] ELSE NoReq]

\* the request hook runs when blockif_enqueue reports a PEND element
NeedRequestHook(enq_ret) ==
    enq_ret = 1

\* the queue-full test that keeps the last free element in reserve
QueueFullOffByOne(q) ==
    Len(q.freeq) <= 1

\* the test that sends blockif_request to its E2BIG branch
QueueFull(q) ==
    q.freeq = <<>>

\* blockif_read / blockif_write / blockif_flush / blockif_discard of the
\* request raw the front-end has filled in.
\* rcAlloc: result of posix_memalign; rcHead, rcTail: results of the reads
\* of the head and tail areas; junk: the byte fresh memory holds; w: the
\* worker pthread_cond_signal wakes; avail: submission-queue entries
\* io_uring_get_sqe can hand out; h: what the host does with inline calls.
blockif_request(op, raw, rcAlloc, rcHead, rcTail, junk, w, avail, h) ==
    /\ ~bq.closing
    /\ ~Aborted(thr)
    /\ nreq' = nreq + 1
    /\ \E info \in {blockif_init_alignment_info(bc, raw.offset, raw.iov,
                                                raw.base)},
          b0 \in {Recycle(br, bq)} :
       LET r    == nreq + 1
           conv == op \in {"READ", "WRITE"} /\ info.need_conversion
           al   == IF conv THEN blockif_init_bounce_iov(rcAlloc, raw.bounce)
                   ELSE [ret |-> 0, base |-> raw.bounce]
           mem  == IF conv THEN BounceMemory(info, rcAlloc, junk) ELSE <<>>
           wr   == conv /\ ~(al.ret < 0) /\ op = "WRITE"
       IN
       \E err \in {IF wr
                    THEN blockif_init_bounced_write(al.base, info, rcHead,
                                                    rcTail)
                    ELSE al.ret},
          breq \in {[raw EXCEPT
                      !.need_conversion = info.need_conversion,
                      !.align_info = info,
                      !.bounce = al.base,
                      !.bbuf = IF wr /\ al.base # NULL
                               THEN BouncedWrite(bc, disk, raw, info, mem,
                                                 rcHead, rcTail, junk)
                               ELSE mem]} :
       IF ~QidxValid(raw.qidx)
       THEN /\ br' = [b0 EXCEPT ![r] = [raw EXCEPT !.ret = ENOENT]]
            /\ UNCHANGED <<sig, bc, bq, mtx, thr, ring, disk>>
       ELSE IF err < 0
       THEN /\ br' = [b0 EXCEPT ![r] = [breq EXCEPT !.ret = err]]
            /\ UNCHANGED <<sig, bc, bq, mtx, thr, ring, disk>>
       ELSE
       /\ bc.aio_mode = AIO_MODE_THREAD_POOL => mtx = NULL
       /\ IF QueueFull(bq)
          THEN /\ br' = [b0 EXCEPT ![r] = [breq EXCEPT !.ret = E2BIG]]
               /\ UNCHANGED <<sig, bc, bq, mtx, thr, ring, disk>>
          ELSE
          \E e \in {blockif_enqueue(bq, bc, breq, r, op)} :
          LET b1 == [b0 EXCEPT ![r] = [breq EXCEPT !.ret = err]]
          IN
          IF ~NeedRequestHook(e.ret)
          THEN /\ bq' = e.bq
               /\ br' = b1
               /\ UNCHANGED <<sig, bc, mtx, thr, ring, disk>>
          ELSE IF bc.aio_mode = AIO_MODE_THREAD_POOL
          THEN /\ bq' = e.bq
               /\ br' = b1
               /\ thr' = thread_pool_request(thr, w)
               /\ UNCHANGED <<sig, bc, mtx, ring, disk>>
          ELSE \E s \in {iou_submit_and_reap(
                            [RingState EXCEPT !.bq = e.bq, !.br = b1],
                            bc, avail, h)} :
                   /\ bq' = s.bq
                   /\ ring' = s.ring
                   /\ br' = s.br
                   /\ disk' = s.disk
                   /\ thr' = IF s.abort THEN Abort(thr) ELSE thr
                   /\ UNCHANGED <<sig, bc, mtx>>

\* the TAILQ_FOREACH scan of blockif_cancel comparing the element itself,
\* not its request, with the request looked for
FindElemAsReq(q, l, r) ==
    LET hit == {i \in 1..Len(l) : l[i] = r /\ q.reqs[l[i]].req = r} IN
    IF hit = {} THEN NULL ELSE l[MinOf(hit)]

\* the element of list l that holds request r, NULL when there is none
FindReq(q, l, r) ==
    LET hit == {i \in 1..Len(l) : q.reqs[l[i]].req = r} IN
    IF hit = {} THEN NULL ELSE l[MinOf(hit)]

\* the wait loop of blockif_cancel left at once, whatever the status
StillBusyNever(q, be) ==
    FALSE

\* the condition of the wait loop of blockif_cancel
StillBusy(q, be) ==
    q.reqs[be].status = "BUSY"

\* blockif_cancel up to its return, or up to the wait for a BUSY element
blockif_cancel(r) ==
    /\ r \in 1..nreq
    /\ ~Aborted(thr)
    /\ UNCHANGED disk
    /\ br[r].cret = <<>>
    /\ mtx # r
    /\ ~bq.closing
    /\ IF ~QidxValid(br[r].qidx)
       THEN /\ br' = [br EXCEPT ![r].cret = <<ENOENT>>]
            /\ UNCHANGED <<sig, bc, bq, mtx, thr, ring, nreq>>
       ELSE
       /\ mtx = NULL
       /\ \E pe \in {FindReq(bq, bq.pendq, r)},
             be \in {FindReq(bq, bq.busyq, r)} :
          IF pe # NULL
          THEN /\ bq' = blockif_complete(bq, bc, br, pe)
               /\ br' = [br EXCEPT ![r].cret = <<0>>]
               /\ UNCHANGED <<sig, bc, mtx, thr, ring, nreq>>
          ELSE IF be = NULL
          THEN /\ br' = [br EXCEPT ![r].cret = <<MinusOne>>]
               /\ UNCHANGED <<sig, bc, bq, mtx, thr, ring, nreq>>
          ELSE IF ~StillBusy(bq, be)
          THEN /\ br' = [br EXCEPT ![r].cret = <<-EBUSY>>]
               /\ UNCHANGED <<sig, bc, bq, mtx, thr, ring, nreq>>
          ELSE /\ mtx' = r
               /\ UNCHANGED <<sig, bc, bq, thr, ring, nreq, br>>

\* the canceller, woken by the signal handler, finds the element no longer
\* BUSY, drops the mutex and returns
blockif_cancel_return(r) ==
    /\ mtx = r
    /\ r # NULL
    /\ bc.aio_mode = AIO_MODE_THREAD_POOL
    /\ LET be == FindReq(bq, bq.busyq, r) IN
        /\ be # NULL
        /\ ~StillBusy(bq, be)
    /\ mtx' = NULL
    /\ br' = [br EXCEPT ![r].cret = <<-EBUSY>>]
    /\ UNCHANGED <<sig, bc, bq, thr, ring, nreq, used, disk>>

----------------------------------------------------------------------------
(* The signal elems: the wait loop of blockif_cancel and the SIGCONT       *)
(* handler, one step for each access to memory another thread may touch.   *)

\* the struct blockif_sig_elem of canceller c is an object of its stack
\* frame only while c is in the body of the wait loop
Live(sg, c) ==
    sg.can[c].pc # "idle"

\* the loop condition holds: pthread_mutex_init, pthread_cond_init,
\* bse.pending = 1
cancel_enter(c) ==
    /\ sig.can[c].pc = "idle"
    /\ sig.can[c].pushes < MaxPushes
    /\ sig' = [sig EXCEPT !.can[c].pc = "read", !.bse[c].pending = 1]
    /\ UNCHANGED <<bc, bq, mtx, thr, ring, nreq, br, used, disk>>

\* old_head = blockif_bse_head; bse.next = old_head
cancel_read(c) ==
    /\ sig.can[c].pc = "read"
    /\ sig' = [sig EXCEPT !.can[c].pc = "cas",
                          !.can[c].old_head = sig.head,
                          !.bse[c].next = sig.head]
    /\ UNCHANGED <<bc, bq, mtx, thr, ring, nreq, br, used, disk>>

\* __sync_bool_compare_and_swap(&blockif_bse_head, old_head, &bse)
cancel_cas(c) ==
    /\ sig.can[c].pc = "cas"
    /\ sig' = IF sig.head = sig.can[c].old_head
              THEN [sig EXCEPT !.head = c, !.can[c].pc = "kill",
                               !.can[c].old_head = NULL,
                               !.can[c].pushes = @ + 1]
              ELSE [sig EXCEPT !.can[c].pc = "read"]
    /\ UNCHANGED <<bc, bq, mtx, thr, ring, nreq, br, used, disk>>

\* pthread_kill(be->tid, SIGCONT): worker t is the one that has the element
cancel_kill(c, t) ==
    /\ sig.can[c].pc = "kill"
    /\ sig' = [sig EXCEPT !.can[c].pc = "wait", !.hdl[t].signalled = TRUE]
    /\ UNCHANGED <<bc, bq, mtx, thr, ring, nreq, br, used, disk>>

\* the canceller finds bse.pending 0 and leaves the wait; the turn of the
\* loop ends and with it the life of bse
cancel_wake(c) ==
    /\ sig.can[c].pc = "wait"
    /\ sig.bse[c].pending = 0
    /\ sig' = [sig EXCEPT !.can[c].pc = "idle"]
    /\ UNCHANGED <<bc, bq, mtx, thr, ring, nreq, br, used, disk>>

\* SIGCONT is delivered to worker t, which is not in the handler (the
\* signal is blocked while its handler runs)
sigcont_deliver(t) ==
    /\ sig.hdl[t].pc = "idle"
    /\ sig.hdl[t].signalled
    /\ sig' = [sig EXCEPT !.hdl[t].pc = "load", !.hdl[t].signalled = FALSE]
    /\ UNCHANGED <<bc, bq, mtx, thr, ring, nreq, br, used, disk>>

\* bse = blockif_bse_head; if (bse == NULL) return
sigcont_load(t) ==
    /\ sig.hdl[t].pc = "load"
    /\ sig' = [sig EXCEPT !.hdl[t].bse = sig.head,
                          !.hdl[t].next = NULL,
                          !.hdl[t].pc = IF sig.head = NULL THEN "idle"
                                        ELSE "next"]
    /\ UNCHANGED <<bc, bq, mtx, thr, ring, nreq, br, used, disk>>

\* the read of bse->next for the third argument of the compare-and-swap;
\* of an elem whose frame is gone the read yields whatever the stack holds
sigcont_next(t, junk) ==
    /\ sig.hdl[t].pc = "next"
    /\ Live(sig, sig.hdl[t].bse) => junk = sig.bse[sig.hdl[t].bse].next
    /\ sig' = [sig EXCEPT !.hdl[t].next = junk, !.hdl[t].pc = "cas"]
    /\ UNCHANGED <<bc, bq, mtx, thr, ring, nreq, br, used, disk>>

\* __sync_bool_compare_and_swap(&blockif_bse_head, bse, bse->next)
sigcont_cas(t) ==
    /\ sig.hdl[t].pc = "cas"
    /\ sig' = IF sig.head = sig.hdl[t].bse
              THEN [sig EXCEPT !.head = sig.hdl[t].next,
                               !.hdl[t].pc = "done"]
              ELSE [sig EXCEPT !.hdl[t].pc = "load"]
    /\ UNCHANGED <<bc, bq, mtx, thr, ring, nreq, br, used, disk>>

\* pthread_mutex_lock(&bse->mtx); bse->pending = 0; pthread_cond_signal;
\* pthread_mutex_unlock.  On an elem whose frame is gone the lock is taken
\* on whatever the stack holds: the handler gets through, or never returns.
sigcont_done(t, hang) ==
    /\ sig.hdl[t].pc = "done"
    /\ Live(sig, sig.hdl[t].bse) => ~hang
    /\ sig' = IF hang
              THEN [sig EXCEPT !.hdl[t].pc = "hung"]
              ELSE IF Live(sig, sig.hdl[t].bse)
              THEN [sig EXCEPT !.hdl[t].pc = "load",
                               !.bse[sig.hdl[t].bse].pending = 0,
                               !.can[sig.hdl[t].bse].pops =
                                    IF @ > MaxPushes THEN @ ELSE @ + 1]
              ELSE [sig EXCEPT !.hdl[t].pc = "load"]
    /\ UNCHANGED <<bc, bq, mtx, thr, ring, nreq, br, used, disk>>

\* one step of canceller c in the wait loop
blockif_cancel_wait(c) ==
    \/ cancel_enter(c)
    \/ cancel_read(c)
    \/ cancel_cas(c)
    \/ \E t \in Threads : cancel_kill(c, t)
    \/ cancel_wake(c)

\* one step of the handler in worker t
blockif_sigcont_handler(t) ==
    \/ sigcont_deliver(t)
    \/ sigcont_load(t)
    \/ \E junk \in Cancellers \cup {NULL} : sigcont_next(t, junk)
    \/ sigcont_cas(t)
    \/ \E hang \in BOOLEAN : sigcont_done(t, hang)

----------------------------------------------------------------------------
(* blockif_close.                                                          *)

\* sub_file_unlock: the lock taken by sub_file_validate is given back
sub_file_unlock(c) ==
    IF c.sub_file_assign = 1 THEN [c EXCEPT !.fl = "F_UNLCK"] ELSE c

\* a broadcast that wakes nobody
BroadcastNone(th) ==
    th

\* pthread_cond_broadcast(&bq->cond): every worker in pthread_cond_wait
\* returns from it
pthread_cond_broadcast(th) ==
    [t \in Threads |-> IF th[t].pc = "wait"
                       THEN [th[t] EXCEPT !.pc = "run"] ELSE th[t]]

\* the first statement of blockif_close
blockif_close_unlock ==
    /\ used.close = "none"
    /\ ~Aborted(thr)
    /\ bc' = sub_file_unlock(bc)
    /\ used' = [used EXCEPT !.close = "unlocked"]
    /\ UNCHANGED <<sig, bq, mtx, thr, ring, nreq, br, disk>>

\* blockif_close takes the mutex, sets closing and broadcasts
blockif_close_stop ==
    /\ used.close = "unlocked"
    /\ mtx = NULL
    /\ bq' = [bq EXCEPT !.closing = TRUE]
    /\ thr' = pthread_cond_broadcast(thr)
    /\ used' = [used EXCEPT !.close = "stopping"]
    /\ UNCHANGED <<sig, bc, mtx, ring, nreq, br, disk>>

\* thread_pool_deinit: pthread_join returns for a worker that has left
\* blockif_thr
thread_pool_deinit(th) ==
    \A t \in Threads : th[t].pc = "exit"

\* ops->deinit returns, and blockif_close closes the file and frees the
\* queue and the context; what the kernel still holds of the ring is left
\* with it
blockif_close_deinit ==
    /\ used.close = "stopping"
    /\ bc.aio_mode = AIO_MODE_THREAD_POOL => thread_pool_deinit(thr)
    /\ used' = [used EXCEPT !.close = "closed"]
    /\ UNCHANGED <<sig, bc, bq, mtx, thr, ring, nreq, br, disk>>

----------------------------------------------------------------------------
(* The front-end and the host around the engine.                           *)

\* the request of the queue runs the front-end fills in: one segment of
\* IovLen zero bytes at an aligned address
QueueReq(off, qidx) ==
    [NoReq EXCEPT !.offset = off, !.iov = <<IovLen>>, !.base = <<0>>,
                  !.buf = <<Fill(IovLen, 0)>>, !.resid = IovLen,
                  !.qidx = qidx]

\* one submit call of the front-end.  The operation, the offset and the
\* queue index come from the given sets.  When faulty, the call may carry a
\* bad qidx, posix_memalign or a read of the head or tail area may fail, or
\* io_uring_get_sqe may find the submission queue exhausted.
Request(ops, offs, qidxs, faulty) ==
    \E op \in ops, off \in offs,
       qidx \in {x \in qidxs : faulty \/ QidxValid(x)} :
      \E info \in {blockif_init_alignment_info(bc, off, <<IovLen>>, <<0>>)} :
        LET conv == /\ QidxValid(qidx)
                    /\ op \in {"READ", "WRITE"}
                    /\ info.need_conversion
            ring_ == QidxValid(qidx) /\ bc.aio_mode = AIO_MODE_IO_URING
        IN  \E rcAlloc \in IF faulty /\ conv THEN {0, ENOMEM} ELSE {0} :
              LET pre == faulty /\ conv /\ op = "WRITE" /\ rcAlloc = 0 IN
              \E rcHead \in IF pre /\ info.head # 0 THEN {0, EIO} ELSE {0},
                 rcTail \in IF pre /\ info.tail # 0 THEN {0, EIO} ELSE {0},
                 w \in IF Waiters(thr) = {} THEN {NULL} ELSE Waiters(thr),
                 avail \in IF faulty /\ ring_ THEN 0..MaxSqeAvail
                           ELSE {MaxSqeAvail} :
                  /\ blockif_request(op, QueueReq(off, qidx), rcAlloc,
                                     rcHead, rcTail, 0, w, avail, NoFault)
                  /\ used' = IF ~QidxValid(qidx) \/ rcAlloc # 0 \/ rcHead # 0
                                \/ rcTail # 0 \/ avail = 0
                             THEN [used EXCEPT !.faults = @ + 1]
                             ELSE used

Submit ==
    /\ nreq < MaxSubmits
    /\ Request(Ops, Offsets, 0..bq_num, used.faults < MaxFaults)

\* one more write than the queue has slots
QueueSubmit ==
    /\ nreq < BLOCKIF_MAXREQ + 1
    /\ Request({"WRITE"}, Offsets, 0..bq_num, used.faults < MaxFaults)

\* writes that carry a good qidx and meet no failure
LiveSubmit ==
    /\ nreq < MaxSubmits
    /\ Request({"WRITE"}, Offsets, {0}, FALSE)

\* writes at offsets 0, IovLen, 2 * IovLen, ... in this order
ScenarioSubmit ==
    /\ nreq < ScenarioLen
    /\ Request({"WRITE"}, {nreq * IovLen}, {0}, FALSE)

\* the segment lengths of the requests of the data runs: up to MaxXfer
\* bytes in up to MaxIovCnt segments, or one whole sector
Splits ==
    {iov \in UNION {[1..n -> 1..MaxXfer] : n \in 1..MaxIovCnt} :
        SeqSum(iov) <= MaxXfer}
    \cup {<<DEV_BSIZE>>}

Bytes ==
    0..MaxByte

\* the byte strings of length n a WRITE carries: neighbours differ
Patterns(n) ==
    {[i \in 1..n |-> (i + k) % (MaxByte + 1)] : k \in Bytes}

\* a request of n = SeqSum(iov) bytes at off, its segments at addresses b
\* modulo the alignment and holding data
DataReq(off, iov, b, data) ==
    [NoReq EXCEPT !.offset = off, !.iov = iov,
                  !.base = [i \in 1..Len(iov) |-> b],
                  !.buf = Scatter(iov, data), !.resid = SeqSum(iov)]

\* what may go wrong in the set-up of a request with alignment info: at
\* most one of posix_memalign of the bounce buffer, the head area and the
\* tail area (by its posix_memalign or its preadv)
SetupFaults(op, info) ==
    {<<0, 0, 0>>}
    \cup (IF info.need_conversion THEN {<<ENOMEM, 0, 0>>} ELSE {})
    \cup (IF info.need_conversion /\ op = "WRITE" /\ info.head # 0
          THEN {<<0, EIO, 0>>, <<0, ENOMEM, 0>>} ELSE {})
    \cup (IF info.need_conversion /\ op = "WRITE" /\ info.tail # 0
          THEN {<<0, 0, EIO>>, <<0, 0, ENOMEM>>} ELSE {})

\* one READ or WRITE of the data runs: any segments, any address alignment,
\* any set-up fault, any byte in fresh memory
DataRequest(op, offs, lens, datas) ==
    \E iov \in {x \in Splits : SeqSum(x) \in lens},
       b \in IF bc.bypass_host_cache THEN {0, 1} ELSE {0},
       off \in offs,
       w \in IF Waiters(thr) = {} THEN {NULL} ELSE Waiters(thr) :
        LET n    == SeqSum(iov)
            info == blockif_init_alignment_info(
                        bc, off, iov, [i \in 1..Len(iov) |-> b])
        IN  /\ off + n <= bc.size
            /\ \E junk \in IF info.need_conversion \/ op = "READ"
                           THEN Bytes ELSE {0},
                  f \in SetupFaults(op, info),
                  wdata \in IF op = "READ" THEN {<<>>}
                            ELSE {d \in datas : Len(d) = n} :
                  LET data == IF op = "READ" THEN Fill(n, junk) ELSE wdata
                  IN
                  /\ blockif_request(op, DataReq(off, iov, b, data),
                                     f[1], f[2], f[3], junk, w,
                                     MaxSqeAvail, NoFault)
                  /\ used' = IF op = "WRITE"
                             THEN [used EXCEPT !.at = off, !.data = data]
                             ELSE used

\* the front-end of the data runs, one request at a time: a WRITE of any
\* bytes anywhere in the file, then, once its callback has reported
\* success, a READ of as many bytes at the same offset, with segments of
\* its own
DataSubmit ==
    /\ nreq < 2
    /\ bq.pendq = <<>> /\ bq.busyq = <<>>
    /\ IF nreq = 0
       THEN DataRequest("WRITE", 0..(bc.size - 1), 1..DEV_BSIZE,
                        UNION {Patterns(n) : n \in 1..DEV_BSIZE})
       ELSE /\ br[1].err = <<0>>
            /\ DataRequest("READ", {used.at}, {Len(used.data)}, {})

\* the calls on the backing file may fail
HostFaults ==
    {NoFault, [NoFault EXCEPT !.rc = EIO], [NoFault EXCEPT !.rcSync = EIO]}

DataProc ==
    \E t \in Threads, h \in HostFaults : blockif_proc(t, h)

DataKernelComplete ==
    \E be \in Slots, h \in HostFaults : io_uring_complete(be, h)

DataCompletionCb ==
    \E h \in HostFaults : iou_completion_cb(MaxSqeAvail, h)

Cancel ==
    /\ used.cancels < MaxCancels
    /\ used' = [used EXCEPT !.cancels = @ + 1]
    /\ \E r \in ReqIds : blockif_cancel(r)

CancelReturn ==
    \E r \in ReqIds : blockif_cancel_return(r)

ThrRun ==
    \E t \in Threads : blockif_thr_run(t)

ThrProc ==
    \E t \in Threads : blockif_proc(t, NoFault)

ThrComplete ==
    \E t \in Threads : blockif_thr_complete(t)

KernelComplete ==
    \E be \in Slots : io_uring_complete(be, NoFault)

CompletionCb ==
    \E avail \in 0..MaxSqeAvail : iou_completion_cb(avail, NoFault)

----------------------------------------------------------------------------
(* Specifications.                                                         *)

\* the engine under any front-end: every operation, good and bad queue
\* indices, failing allocations and reads, cancellation
Next ==
    \/ Submit
    \/ Cancel
    \/ CancelReturn
    \/ ThrRun
    \/ ThrProc
    \/ ThrComplete
    \/ KernelComplete
    \/ CompletionCb

Spec ==
    Init /\ [][Next]_vars

\* a front-end that overruns the queue and never cancels
QueueNext ==
    \/ QueueSubmit
    \/ ThrRun
    \/ ThrProc
    \/ ThrComplete
    \/ KernelComplete
    \/ CompletionCb

QueueSpec ==
    Init /\ [][QueueNext]_vars

\* a worker thread that can take a step eventually takes one: the threads
\* are scheduled fairly and every I/O call returns
Fairness ==
    \A t \in Threads : WF_vars(blockif_thr(t))

\* the thread-pool backend with neither close nor cancel
LiveInit ==
    /\ Init
    /\ bc.aio_mode = AIO_MODE_THREAD_POOL

LiveNext ==
    \/ LiveSubmit
    \/ ThrRun
    \/ ThrProc
    \/ ThrComplete

LiveSpec ==
    LiveInit /\ [][LiveNext]_vars /\ Fairness

\* the thread-pool backend with bst_block on, fed consecutive writes
ScenarioInit ==
    /\ Init
    /\ bc.aio_mode = AIO_MODE_THREAD_POOL
    /\ bc.bst_block = 1

ScenarioNext ==
    \/ ScenarioSubmit
    \/ ThrRun
    \/ ThrProc
    \/ ThrComplete

ScenarioSpec ==
    ScenarioInit /\ [][ScenarioNext]_vars /\ Fairness

\* the data path: both backends, with and without nocache, read-only and
\* writable, writethru (the default), over a file every byte of which
\* differs from every byte a request carries
InitBytes ==
    [i \in 1..(DiskSectors * DEV_BSIZE) |-> MaxByte + i]

DataInit ==
    /\ bc \in {Opened(m, 0, n, ro, 0, <<>>) :
               m \in {AIO_MODE_THREAD_POOL, AIO_MODE_IO_URING},
               n \in BOOLEAN, ro \in {0, 1}}
    /\ Started(InitBytes)

DataNext ==
    \/ DataSubmit
    \/ ThrRun
    \/ DataProc
    \/ ThrComplete
    \/ DataKernelComplete
    \/ DataCompletionCb

DataSpec ==
    DataInit /\ [][DataNext]_vars

\* the discard runs: one DISCARD in either input convention against a
\* writable descriptor opened with the discard option
DiscardInit ==
    /\ bc \in {Opened(m, 0, FALSE, 0, 0, <<S, G, A>>) :
               m \in {AIO_MODE_THREAD_POOL, AIO_MODE_IO_URING},
               S \in 1..MaxRangeSectors, G \in 1..MaxRanges, A \in {0, 2}}
    /\ Started(InitBytes)

\* struct discard_range as the front-end fills it in
DiscardRanges ==
    [sector : 0..DiskSectors, num_sectors : 0..MaxRangeSectors]

\* virtio-blk: one segment that holds n records
MultiRangeReq(rs) ==
    [NoReq EXCEPT !.iov = <<Len(rs) * SizeofRange>>, !.base = <<0>>,
                  !.ranges = rs, !.resid = Len(rs) * SizeofRange]

\* ahci: the range is in offset and resid, and iovcnt is not 1
SingleRangeReq(off, n) ==
    [NoReq EXCEPT !.offset = off, !.resid = n]

DiscardReqs ==
    {MultiRangeReq(rs) :
        rs \in UNION {[1..n -> DiscardRanges] : n \in 0..MaxRanges}}
    \cup {SingleRangeReq(k * DEV_BSIZE, n * DEV_BSIZE) :
             k \in 0..DiskSectors, n \in 0..MaxRangeSectors}

\* what the host does to a discard: nothing, the failure of the call for
\* one range, or the end of the process at a store outside the array
DiscardFaults ==
    {NoFault, [NoFault EXCEPT !.smash = TRUE]}
    \cup {[NoFault EXCEPT !.rcs[i] = MinusOne] : i \in 1..MaxRanges}

DiscardSubmit ==
    /\ nreq = 0
    /\ \E req \in DiscardReqs,
          h \in IF bc.aio_mode = AIO_MODE_IO_URING
                THEN DiscardFaults ELSE {NoFault},
          w \in IF Waiters(thr) = {} THEN {NULL} ELSE Waiters(thr) :
            /\ blockif_request("DISCARD", req, 0, 0, 0, 0, w,
                               MaxSqeAvail, h)
            /\ used' = [used EXCEPT !.req = req]

DiscardProc ==
    \E t \in Threads, h \in DiscardFaults : blockif_proc(t, h)

DiscardNext ==
    \/ DiscardSubmit
    \/ ThrRun
    \/ DiscardProc
    \/ ThrComplete

DiscardSpec ==
    DiscardInit /\ [][DiscardNext]_vars

\* the alignment runs: descriptors opened with nocache, with the sector
\* sizes the sectorsize option admits (powers of two) scaled down, and with
\* a sub-file that starts at any byte
SectorSizes ==
    {2, 4, 8}

AlignInit ==
    /\ bc \in {[Opened(AIO_MODE_THREAD_POOL, 0, TRUE, 0, 0, <<>>)
                  EXCEPT !.sectsz = a, !.sub_file_start_lba = b] :
               a \in SectorSizes, b \in {0, 1}}
    /\ Started(InitBytes)

\* blockif_request as far as its call of blockif_init_alignment_info, for
\* a request with any offset, segments and segment addresses
AlignRequest ==
    /\ nreq = 0
    /\ \E off \in 0..MaxAlignOff,
          iov \in UNION {[1..n -> 1..MaxSegLen] : n \in 1..MaxIovCnt},
          b \in {0, 1} :
            LET base == [i \in 1..Len(iov) |-> b]
                info == blockif_init_alignment_info(bc, off, iov, base)
            IN  br' = [br EXCEPT ![1] =
                          [NoReq EXCEPT !.offset = off, !.iov = iov,
                                        !.base = base,
                                        !.need_conversion =
                                            info.need_conversion,
                                        !.align_info = info]]
    /\ nreq' = nreq + 1
    /\ UNCHANGED <<sig, bc, bq, mtx, thr, ring, used, disk>>

AlignNext ==
    AlignRequest

AlignSpec ==
    AlignInit /\ [][AlignNext]_vars

\* the thread-pool backend with a canceller: the workers are scheduled
\* fairly, every I/O call returns, and a canceller that can return does
CancelSubmit ==
    /\ nreq < MaxSubmits
    /\ Request({"READ"}, Offsets, {0}, FALSE)

CancelNext ==
    \/ CancelSubmit
    \/ Cancel
    \/ CancelReturn
    \/ ThrRun
    \/ ThrProc
    \/ ThrComplete

CancelSpec ==
    LiveInit /\ [][CancelNext]_vars /\ Fairness /\ WF_vars(CancelReturn)

\* the requests that were accepted and have not had their callback
Outstanding ==
    {r \in ReqIds : (\E s \in Slots : bq.reqs[s].req = r) /\ br[r].cbs = 0}

\* blockif_queuesz
blockif_queuesz ==
    BLOCKIF_MAXREQ - 1

\* a front-end that keeps to the advertised queue depth: it submits only
\* while fewer than blockif_queuesz requests are outstanding
DepthSubmit ==
    /\ nreq < BLOCKIF_MAXREQ + 1
    /\ Cardinality(Outstanding) < blockif_queuesz
    /\ Request({"WRITE"}, Offsets, {0}, FALSE)

DepthNext ==
    \/ DepthSubmit
    \/ ThrRun
    \/ ThrProc
    \/ ThrComplete

DepthSpec ==
    LiveInit /\ [][DepthNext]_vars

\* the close runs: both backends over a sub-range of the file that
\* blockif_open has locked, fed writes until the front-end calls
\* blockif_close; the workers are scheduled fairly and close goes on
CloseInit ==
    /\ bc \in {[Opened(m, b, FALSE, 0, 1, <<>>)
                    EXCEPT !.sub_file_assign = 1, !.fl = "F_WRLCK"] :
               m \in {AIO_MODE_THREAD_POOL, AIO_MODE_IO_URING}, b \in {0, 1}}
    /\ Started(Fill(DiskSectors * DEV_BSIZE, 0))

CloseSubmit ==
    /\ used.close = "none"
    /\ LiveSubmit

Close ==
    \/ blockif_close_unlock
    \/ blockif_close_stop
    \/ blockif_close_deinit

CloseNext ==
    \/ CloseSubmit
    \/ ThrRun
    \/ ThrProc
    \/ ThrComplete
    \/ KernelComplete
    \/ CompletionCb
    \/ Close

CloseSpec ==
    CloseInit /\ [][CloseNext]_vars /\ Fairness /\ WF_vars(Close)

\* the signal runs: cancellers on queues of their own push signal elems and
\* the handlers in the workers pop them; every thread is scheduled fairly
SigCancel ==
    \E c \in Cancellers : blockif_cancel_wait(c)

SigHandler ==
    \E t \in Threads : blockif_sigcont_handler(t)

SigNext ==
    \/ SigCancel
    \/ SigHandler

SigInit ==
    /\ bc = Opened(AIO_MODE_THREAD_POOL, 0, FALSE, 0, 1, <<>>)
    /\ Started(Fill(DiskSectors * DEV_BSIZE, 0))

SigSpec ==
    /\ SigInit
    /\ [][SigNext]_vars
    /\ \A c \in Cancellers : WF_vars(blockif_cancel_wait(c))
    /\ \A t \in Threads : WF_vars(blockif_sigcont_handler(t))

\* the contiguous runs: the thread pool with nocache and bst_block on and
\* no failing call; WRITE A that ends inside a sector, then, at any moment,
\* WRITE B that starts where A ends
ContigNext ==
    \/ /\ nreq < 2
       /\ \E iov \in Splits, b \in {0, 1}, junk \in Bytes,
             off \in IF nreq = 0 THEN 0..(bc.size - 1)
                     ELSE {used.at + Len(used.data)},
             w \in IF Waiters(thr) = {} THEN {NULL} ELSE Waiters(thr) :
            /\ off + SeqSum(iov) <= bc.size
            /\ nreq = 0 => /\ off + SeqSum(iov) < bc.size
                           /\ (off + SeqSum(iov)) % bc.sectsz # 0
            /\ \E data \in Patterns(SeqSum(iov)) :
                /\ blockif_request("WRITE", DataReq(off, iov, b, data),
                                   0, 0, 0, junk, w, MaxSqeAvail, NoFault)
                /\ used' = [used EXCEPT !.at = off, !.data = data]
    \/ ThrRun
    \/ ThrProc
    \/ ThrComplete

ContigSpec ==
    /\ \E c \in {Opened(AIO_MODE_THREAD_POOL, 1, TRUE, 0, 1, <<>>)} :
            bc = c /\ Started(InitBytes)
    /\ [][ContigNext]_vars

\* the interlock runs: the thread pool with bst_block on and discard, fed
\* requests of every kind with one segment and discards in the convention
\* of ahci, which carry no segment; pending requests may be cancelled
InterlockNext ==
    \/ /\ nreq < MaxSubmits
       /\ Request(Ops, Offsets, {0}, FALSE)
    \/ /\ nreq < MaxSubmits
       /\ \E k \in 0..(DiskSectors - 1),
             w \in IF Waiters(thr) = {} THEN {NULL} ELSE Waiters(thr) :
            /\ blockif_request("DISCARD",
                               SingleRangeReq(k * DEV_BSIZE, DEV_BSIZE),
                               0, 0, 0, 0, w, MaxSqeAvail, NoFault)
            /\ UNCHANGED used
    \/ Cancel
    \/ CancelReturn
    \/ ThrRun
    \/ ThrProc
    \/ ThrComplete

InterlockSpec ==
    /\ \E c \in {Opened(AIO_MODE_THREAD_POOL, 1, FALSE, 0, 1,
                         <<DiskSectors, 1, 0>>)} :
            bc = c /\ Started(Fill(DiskSectors * DEV_BSIZE, 0))
    /\ [][InterlockNext]_vars

\* blockif_set_wce: the front-end stores the write cache setting, without
\* the mutex
blockif_set_wce(wce) ==
    /\ bc' = [bc EXCEPT !.wce = wce]
    /\ UNCHANGED <<sig, bq, mtx, thr, ring, nreq, br, used, disk>>

\* the writethru runs: READs, WRITEs and FLUSHes on either backend, several
\* in flight at a time, while the front-end switches the write cache and
\* calls on the backing file fail
WritethruNext ==
    \/ /\ nreq < MaxSubmits
       /\ Request({"READ", "WRITE", "FLUSH"}, Offsets, {0}, FALSE)
    \/ \E wce \in {0, 1} : blockif_set_wce(wce)
    \/ ThrRun
    \/ DataProc
    \/ ThrComplete
    \/ DataKernelComplete
    \/ DataCompletionCb

WritethruSpec ==
    /\ \E m \in {AIO_MODE_THREAD_POOL, AIO_MODE_IO_URING}, wce \in {0, 1} :
            /\ bc = Opened(m, 0, FALSE, 0, wce, <<>>)
            /\ Started(Fill(DiskSectors * DEV_BSIZE, 0))
    /\ [][WritethruNext]_vars

\* the flush runs: the thread pool with bst_block on, over a file long
\* enough to hold the offset that equals the key of a FLUSH slot
FlushInit ==
    /\ bc = Opened(AIO_MODE_THREAD_POOL, 1, FALSE, 0, 1, <<>>)
    /\ Started(Fill(Shl1(SizeofOffT - 1) + IovLen, 0))

FlushSubmit ==
    /\ nreq < MaxSubmits
    /\ Request(Ops, {0, Shl1(SizeofOffT - 1)}, {0}, FALSE)

FlushNext ==
    \/ FlushSubmit
    \/ ThrRun
    \/ ThrProc
    \/ ThrComplete

FlushSpec ==
    FlushInit /\ [][FlushNext]_vars

----------------------------------------------------------------------------
(* Properties.                                                             *)

\* the slots whose req field points at request r
SlotsOf(r) ==
    {s \in Slots : bq.reqs[s].req = r}

\* request r is held by the engine: pending, blocked or in flight
Held(r) ==
    SlotsOf(r) # {}

\* the status of the slot that holds r
StatusOf(r) ==
    IF Held(r) THEN bq.reqs[CHOOSE s \in SlotsOf(r) : TRUE].status ELSE "FREE"

\* request r is on pendq, on busyq
OnPendq(r) ==
    \E s \in SlotsOf(r) : InSeq(s, bq.pendq)

OnBusyq(r) ==
    \E s \in SlotsOf(r) : InSeq(s, bq.busyq)

\* how often slot s occurs on the three lists together
Occurrences(s) ==
    Cardinality({i \in 1..Len(bq.freeq) : bq.freeq[i] = s})
    + Cardinality({i \in 1..Len(bq.pendq) : bq.pendq[i] = s})
    + Cardinality({i \in 1..Len(bq.busyq) : bq.busyq[i] = s})

\* the step is a return of blockif_cancel for request r
CancelReturns(r) ==
    br[r].cret = <<>> /\ br'[r].cret # <<>>

\* the step is a submit call, of request nreq'
SubmitStep ==
    nreq' = nreq + 1

\* C1: a request whose submit returned 0 and that was never cancelled has
\* had its callback at most once, and a request whose submit returned an
\* error has had no callback.
C1_CallbackOnlyAfterSuccess ==
    \A r \in ReqIds :
        /\ (br[r].ret = 0 /\ br[r].cret = <<>>) => br[r].cbs <= 1
        /\ br[r].ret # 0 => br[r].cbs = 0

\* C2: thread pool, fair workers, no close and no cancel: every request a
\* slot holds (PEND or BLOCK at first) eventually has had its callback and
\* has left its slot, which is back on freeq.
C2_AcceptedEventuallyCompleted ==
    \A r \in 1..MaxSubmits :
        Held(r) ~> (br[r].cbs = 1 /\ ~Held(r)
                    /\ Len(bq.freeq) + Len(bq.pendq) + Len(bq.busyq)
                         = BLOCKIF_MAXREQ)

\* C2 witness: a request enqueued BLOCK behind one in flight while the other
\* worker waits on the condition variable
C2_Witness ==
    /\ bc.aio_mode = AIO_MODE_THREAD_POOL
    /\ \E r \in ReqIds : StatusOf(r) = "BLOCK"
    /\ \E t \in Threads : thr[t].pc = "wait"

\* C3: the three lists hold BLOCKIF_MAXREQ slots together and no slot is on
\* two of them (or twice on one).
C3_SlotAccounting ==
    /\ Len(bq.freeq) + Len(bq.pendq) + Len(bq.busyq) = BLOCKIF_MAXREQ
    /\ \A s \in Slots : Occurrences(s) = 1

\* C3 witness: after a cancel, with slots on all three lists and freeq no
\* longer in its initial order
C3_Witness ==
    /\ used.cancels > 0
    /\ bq.freeq # <<>> /\ bq.pendq # <<>> /\ bq.busyq # <<>>
    /\ Head(bq.freeq) # Head(InitFreeq)

\* C4: a slot is on freeq iff it is FREE, on pendq iff it is PEND or
\* BLOCK, on busyq iff it is BUSY or DONE.
C4_ListMatchesStatus ==
    \A s \in Slots :
        /\ InSeq(s, bq.freeq) <=> bq.reqs[s].status = "FREE"
        /\ InSeq(s, bq.pendq) <=> bq.reqs[s].status \in {"PEND", "BLOCK"}
        /\ InSeq(s, bq.busyq) <=> bq.reqs[s].status \in {"BUSY", "DONE"}

\* C4 witness: a DONE slot, a BLOCK slot and a FREE slot at once
C4_Witness ==
    /\ \E s \in Slots : bq.reqs[s].status = "DONE"
    /\ \E s \in Slots : bq.reqs[s].status = "BLOCK"
    /\ \E s \in Slots : bq.reqs[s].status = "FREE"

\* C5: with bst_block on, no two slots are BUSY together where the request
\* submitted later has the offset that is the block key of the earlier one.
C5_NoConsecutiveBusy ==
    bc.bst_block = 1 =>
        \A s1, s2 \in Slots :
            (/\ bq.reqs[s1].status = "BUSY"
             /\ bq.reqs[s2].status = "BUSY"
             /\ bq.reqs[s1].req < bq.reqs[s2].req)
            => br[bq.reqs[s2].req].offset # bq.reqs[s1].block

\* C6: write A at offset 0, then write B at offset IovLen while a slot still
\* holds A: B is enqueued BLOCK, is BLOCK as long as A has had no callback,
\* leaves BLOCK only in the step that completes A, and has its callback in
\* the end.
C6_BlockedUntilPredecessorDone ==
    /\ [][(SubmitStep /\ nreq = 1 /\ Held(1)) => StatusOf(2)' = "BLOCK"]_vars
    /\ [](Held(2) /\ Held(1) /\ br[1].cbs = 0 => StatusOf(2) = "BLOCK")
    /\ [][(StatusOf(2) = "BLOCK" /\ StatusOf(2)' # "BLOCK")
            => (Held(1) /\ br[1].cbs = 1 /\ ~Held(1)'
                /\ StatusOf(2)' \in {"PEND", "BUSY"})]_vars
    /\ (StatusOf(2) = "BLOCK") ~> (br[2].cbs = 1)

\* C6 witness: A has had its callback and B is still BLOCK
C6_Witness ==
    /\ Held(1) /\ br[1].cbs = 1
    /\ StatusOf(2) = "BLOCK"

\* C7 as stated: a submit with freeq empty returns E2BIG, has no callback
\* and leaves the queue as it is; a submit with freeq non-empty does not
\* return E2BIG.
C7_FullIffFreeqEmpty ==
    [][SubmitStep =>
        /\ bq.freeq = <<>> => (/\ br'[nreq'].ret = E2BIG
                               /\ br'[nreq'].cbs = 0
                               /\ bq' = bq)
        /\ bq.freeq # <<>> => br'[nreq'].ret # E2BIG]_vars

\* C7 amended: a submit with freeq empty that carries a good qidx and was
\* not turned away by a negative result of its bounce set-up returns E2BIG,
\* has no callback and leaves the queue as it is; a submit with freeq
\* non-empty does not return E2BIG.
C7_FullWhenQueueReached ==
    [][SubmitStep =>
        /\ (/\ bq.freeq = <<>>
            /\ br'[nreq'].qidx < bq_num
            /\ ~(br'[nreq'].ret < 0))
           => (/\ br'[nreq'].ret = E2BIG
               /\ br'[nreq'].cbs = 0
               /\ ~Held(nreq + 1)'
               /\ bq' = bq)
        /\ bq.freeq # <<>> => br'[nreq'].ret # E2BIG]_vars

\* C7 witness: a submit has just returned E2BIG, all slots being taken
C7_Witness ==
    /\ nreq > 0
    /\ bq.freeq = <<>>
    /\ br[nreq].ret = E2BIG
    /\ br[nreq].qidx < bq_num

\* C8: a submit with qidx >= bq_num returns ENOENT and leaves the queue,
\* the workers, the ring and the mutex as they are, allocates no bounce
\* buffer and has no callback, then or later.
C8_BadQidxNoEffect ==
    /\ [][(SubmitStep /\ br'[nreq'].qidx >= bq_num)
            => (/\ br'[nreq'].ret = ENOENT
                /\ br'[nreq'].bounce = NULL
                /\ br'[nreq'].cbs = 0
                /\ ~Held(nreq + 1)'
                /\ bq' = bq /\ thr' = thr /\ ring' = ring /\ mtx' = mtx
                /\ \A r \in ReqIds : br'[r].cbs <= br[r].cbs)]_vars
    /\ [](\A r \in ReqIds : br[r].qidx >= bq_num
                              => (br[r].cbs = 0 /\ ~Held(r)))

\* C8 witness: a request turned away for its qidx while the queue holds
\* pending and in-flight requests
C8_Witness ==
    /\ nreq > 0
    /\ br[nreq].qidx >= bq_num
    /\ br[nreq].ret = ENOENT
    /\ bq.pendq # <<>> /\ bq.busyq # <<>>

C10_CancelAbsentIsNotFound ==
    [][\A r \in ReqIds :
        (CancelReturns(r) /\ ~OnPendq(r) /\ ~OnBusyq(r))
        => (br'[r].cret = <<ENOENT>> /\ bq' = bq)]_vars

C18_SetupFailureNotEnqueued ==
    [][(SubmitStep /\ br'[nreq'].ret \in {ENOMEM, EIO, MinusOne})
        => (bq' = bq /\ ring' = ring /\ ~Held(nreq + 1)')]_vars

\* C19: thread pool: a submit made while fewer than blockif_queuesz
\* requests are outstanding does not return E2BIG.
C19_NoQueueFullWithinDepth ==
    [][SubmitStep => br'[nreq'].ret # E2BIG]_vars

\* C12: on a descriptor opened read-only the backing file keeps its bytes,
\* and the callback of a WRITE is called with EROFS.
C12_ReadOnlyWrite ==
    bc.rdonly = 1 =>
        /\ disk.bytes = InitBytes
        /\ br[1].cbs = 1 => br[1].err = <<EROFS>>

\* C13: a READ that follows a WRITE of bytes B at the same offset, both
\* callbacks having reported success, leaves B in the segments of the reader.
C13_RoundTrip ==
    (nreq = 2 /\ br[2].cbs = 1 /\ br[2].err = <<0>>)
        => Gather(br[2].buf) = used.data

\* C14: after a converted WRITE whose callback reported success, the bytes
\* of the aligned span around it, before its start and after its end, are
\* the bytes the file held before.
C14_FrameKept ==
    (nreq = 1 /\ br[1].cbs = 1 /\ br[1].err = <<0>> /\ bc.bypass_host_cache)
        => LET info == blockif_init_alignment_info(
                           bc, used.at, <<Len(used.data)>>, <<0>>)
               end  == info.aligned_dn_start + info.head + info.org_size
           IN  info.need_conversion =>
                 \A p \in (info.aligned_dn_start + 1)..
                           (info.aligned_dn_start + info.bounced_size) :
                    (p <= info.aligned_dn_start + info.head \/ p > end)
                        => disk.bytes[p] = InitBytes[p]
\* the range [start, start + size) is one a DISCARD must be refused for
RangeInvalid(start, size) ==
    \/ size = 0
    \/ start + size > bc.size + bc.sub_file_start_lba
    \/ size \div DEV_BSIZE > bc.max_discard_sectors
    \/ /\ bc.discard_sector_alignment # 0
       /\ (start \div DEV_BSIZE) % bc.discard_sector_alignment # 0

\* the ranges the DISCARD of the discard runs asks for, in order
AskedRanges ==
    IF Len(used.req.iov) = 1
    THEN [i \in 1..(used.req.iov[1] \div SizeofRange) |->
            <<used.req.ranges[i].sector * DEV_BSIZE + bc.sub_file_start_lba,
              used.req.ranges[i].num_sectors * DEV_BSIZE>>]
    ELSE <<<<used.req.offset + bc.sub_file_start_lba, used.req.resid>>>>

SomeRangeInvalid ==
    \E i \in 1..Len(AskedRanges) :
        RangeInvalid(AskedRanges[i][1], AskedRanges[i][2])

\* C15: a DISCARD with an invalid range, in either input convention, is
\* answered with EINVAL and leaves the backing file as it was.
C15_InvalidDiscard ==
    (nreq = 1 /\ br[1].cbs = 1 /\ SomeRangeInvalid)
        => (br[1].err = <<EINVAL>> /\ disk = [bytes |-> InitBytes,
                                              punched |-> <<>>])

\* C16: a multi-range DISCARD with more records than max_discard_seg or
\* with an invalid record is answered with EINVAL and nothing of it is
\* discarded; one whose records are all valid has each range discarded in
\* order and resid set to 0; in no case does the request end the process.
C16_MultiRangeWhole ==
    (nreq = 1 /\ Len(used.req.iov) = 1)
        => /\ ~Aborted(thr)
           /\ br[1].cbs = 1 =>
                IF Len(AskedRanges) > bc.max_discard_seg \/ SomeRangeInvalid
                THEN /\ br[1].err = <<EINVAL>>
                     /\ disk = [bytes |-> InitBytes, punched |-> <<>>]
                ELSE br[1].fail = <<>> =>
                        /\ disk.punched = AskedRanges
                        /\ br[1].resid = 0

\* C17: the callback is called with zero or with a positive code, and with
\* zero only when no call on the backing file failed for the request.
C17_CallbackCode ==
    \A r \in ReqIds :
        br[r].cbs = 1 =>
            /\ br[r].err[1] >= 0
            /\ br[r].fail # <<>> => br[r].err[1] > 0
\* C20: where conversion is needed, head and tail are below the alignment,
\* aligned_dn_start and aligned_dn_end are multiples of it, bounced_size is
\* head + org_size + tail and a multiple of it, and the bounce span holds
\* the bytes from start to start + org_size.
C20_AlignmentArithmetic ==
    \A r \in ReqIds :
        LET info      == br[r].align_info
            alignment == bc.sectsz
            start     == br[r].offset + bc.sub_file_start_lba
        IN  info.need_conversion =>
              /\ info.org_size = SeqSum(br[r].iov)
              /\ info.head < alignment
              /\ info.tail < alignment
              /\ info.aligned_dn_start % alignment = 0
              /\ info.aligned_dn_end % alignment = 0
              /\ info.bounced_size = info.head + info.org_size + info.tail
              /\ info.bounced_size % alignment = 0
              /\ info.aligned_dn_start <= start
              /\ start + info.org_size
                    <= info.aligned_dn_start + info.bounced_size

C20_Witness ==
    \E r \in ReqIds :
        /\ br[r].align_info.need_conversion
        /\ br[r].align_info.head > 0
        /\ br[r].align_info.tail > 0
        /\ br[r].align_info.aligned_dn_end > br[r].align_info.aligned_dn_start
        /\ bc.sub_file_start_lba # 0
        /\ Len(br[r].iov) > 1
\* C21: a request the engine does not hold, or whose callback has been
\* called, has no bounce buffer allocated.
C21_BounceReleased ==
    \A r \in ReqIds :
        (~Held(r) \/ br[r].cbs > 0) => br[r].bounce = NULL

\* C22: on the ring backend every slot on busyq has been handed to the
\* ring: the kernel owns its entry or its completion is posted.
C22_StarvedStaysPending ==
    bc.aio_mode = AIO_MODE_IO_URING =>
        \A i \in 1..Len(bq.busyq) :
            bq.busyq[i] \in ring.kernel \/ InSeq(bq.busyq[i], ring.cq)
\* C23: a READ or WRITE submitted with resid = org_size that completed
\* with every call on the backing file successful leaves resid = 0.
C23_ResidAccounting ==
    \A r \in ReqIds :
        (br[r].cbs = 1 /\ br[r].ret = 0 /\ br[r].err = <<0>>
            /\ br[r].fail = <<>>) => br[r].resid = 0
\* C24: with bst_block on, a request submitted while every slot in use
\* holds a FLUSH is not enqueued BLOCK.
C24_FlushNeverBlocks ==
    [][(/\ SubmitStep
        /\ bc.bst_block = 1
        /\ \A s \in Slots : bq.reqs[s].status # "FREE"
                                => bq.reqs[s].op = "FLUSH")
            => \A r \in ReqIds : r = nreq + 1 => StatusOf(r)' # "BLOCK"]_vars
\* C25: blockif_dequeue, applied to the queue as it is, picks the PEND slot
\* nearest the head of pendq, moves it to the tail of busyq as BUSY with the
\* worker's id and leaves every other slot and freeq alone, and with no PEND
\* slot it returns nothing and changes nothing; with bst_block off no request
\* has started while a request submitted before it is still PEND.
C25_DequeueOrder ==
    /\ \A t \in Threads :
        LET d    == blockif_dequeue(bq, t)
            pend == {i \in 1..Len(bq.pendq) :
                        bq.reqs[bq.pendq[i]].status = "PEND"}
        IN  IF pend = {}
            THEN d.be = NULL /\ d.bq = bq
            ELSE \E i \in pend :
                    /\ \A j \in pend : i <= j
                    /\ d.be = bq.pendq[i]
                    /\ d.bq.pendq = SubSeq(bq.pendq, 1, i - 1)
                                     \o SubSeq(bq.pendq, i + 1, Len(bq.pendq))
                    /\ d.bq.busyq = Append(bq.busyq, d.be)
                    /\ d.bq.freeq = bq.freeq
                    /\ d.bq.reqs[d.be] = [bq.reqs[d.be] EXCEPT !.status = "BUSY",
                                                                !.tid = t]
                    /\ \A s \in Slots \ {d.be} : d.bq.reqs[s] = bq.reqs[s]
    /\ bc.bst_block = 0 =>
            \A r1, r2 \in ReqIds :
                (r1 < r2 /\ StatusOf(r2) \in {"BUSY", "DONE"})
                    => StatusOf(r1) # "PEND"

\* a request is in flight while a request submitted before it still waits
\* BLOCK on pendq: the scan has passed over the BLOCK slot
C25_Witness ==
    \E r1, r2 \in ReqIds :
        /\ r1 < r2
        /\ StatusOf(r1) = "BLOCK" /\ OnPendq(r1)
        /\ StatusOf(r2) = "BUSY" /\ OnBusyq(r2)
        /\ \E s \in SlotsOf(r2) : bq.reqs[s].tid \in Threads
\* C26: with bst_block on, blockif_complete applied to a slot in use sets to
\* PEND the pendq slots whose request offset equals the slot's block key and
\* no other, changes nothing else of any other slot, and puts the slot at
\* the tail of freeq, FREE, with no request, off pendq and busyq.
C26_CompleteFrame ==
    bc.bst_block = 1 =>
        \A be \in Slots :
            bq.reqs[be].status # "FREE" =>
                LET q2 == blockif_complete(bq, bc, br, be) IN
                /\ \A s \in Slots \ {be} :
                        q2.reqs[s] =
                            IF /\ InSeq(s, bq.pendq)
                               /\ br[bq.reqs[s].req].offset = bq.reqs[be].block
                            THEN [bq.reqs[s] EXCEPT !.status = "PEND"]
                            ELSE bq.reqs[s]
                /\ q2.reqs[be].status = "FREE"
                /\ q2.reqs[be].req = NULL
                /\ q2.freeq = Append(bq.freeq, be)
                /\ ~InSeq(be, q2.pendq) /\ ~InSeq(be, q2.busyq)
                /\ \A s \in Slots \ {be} :
                        /\ InSeq(s, q2.pendq) <=> InSeq(s, bq.pendq)
                        /\ InSeq(s, q2.busyq) <=> InSeq(s, bq.busyq)

\* a worker is about to complete a DONE slot while pendq holds a BLOCK slot
\* whose request starts at the slot's key and a BLOCK slot whose request
\* does not
C26_Witness ==
    /\ bc.bst_block = 1
    /\ \E t \in Threads, s1, s2 \in Slots :
            /\ thr[t].be # NULL
            /\ bq.reqs[thr[t].be].status = "DONE"
            /\ s1 # s2
            /\ InSeq(s1, bq.pendq) /\ InSeq(s2, bq.pendq)
            /\ bq.reqs[s1].status = "BLOCK" /\ bq.reqs[s2].status = "BLOCK"
            /\ br[bq.reqs[s1].req].offset = bq.reqs[thr[t].be].block
            /\ br[bq.reqs[s2].req].offset # bq.reqs[thr[t].be].block
\* C27: thread pool: a step that changes freeq, pendq or busyq starts with
\* the mutex free, so the thread that takes the step holds it; the step that
\* has the callback of a request finds its slot BUSY, leaves it DONE and
\* touches no list, and may be taken while another thread holds the mutex;
\* a slot in flight is released only when it is DONE, after the callback,
\* by a step that starts with the mutex free.
C27_WorkerLocking ==
    /\ [][(\/ bq'.freeq # bq.freeq
           \/ bq'.pendq # bq.pendq
           \/ bq'.busyq # bq.busyq) => mtx = NULL]_vars
    /\ [][\A r \in ReqIds :
            br'[r].cbs = br[r].cbs + 1
            => (/\ StatusOf(r) = "BUSY"
                /\ StatusOf(r)' = "DONE"
                /\ bq'.freeq = bq.freeq
                /\ bq'.pendq = bq.pendq
                /\ bq'.busyq = bq.busyq)]_vars
    /\ [][\A r \in ReqIds :
            (OnBusyq(r) /\ ~Held(r)')
            => (/\ StatusOf(r) = "DONE"
                /\ br[r].cbs = 1
                /\ mtx = NULL)]_vars

\* a canceller holds the mutex, and a worker has done the I/O and the
\* callback of another request meanwhile and waits for the mutex
C27_Witness ==
    \E r, r2 \in ReqIds, t \in Threads :
        /\ mtx = r
        /\ r2 # r
        /\ thr[t].pc = "comp"
        /\ thr[t].be \in SlotsOf(r2)
        /\ StatusOf(r2) = "DONE"
        /\ br[r2].cbs = 1
\* C28: thread pool: once closing is set every worker exits in the end and
\* the join returns; the step by which a worker exits leaves no PEND slot on
\* pendq; when close has returned pendq and busyq are empty and every
\* accepted request on record has had its callback.
C28_CloseDrains ==
    /\ (bc.aio_mode = AIO_MODE_THREAD_POOL /\ bq.closing)
            ~> (\A t \in Threads : thr[t].pc = "exit")
    /\ (bc.aio_mode = AIO_MODE_THREAD_POOL /\ bq.closing)
            ~> (used.close = "closed")
    /\ [][\A t \in Threads :
            (thr[t].pc # "exit" /\ thr'[t].pc = "exit")
            => \A i \in 1..Len(bq'.pendq) :
                    bq'.reqs[bq'.pendq[i]].status # "PEND"]_vars
    /\ []((bc.aio_mode = AIO_MODE_THREAD_POOL /\ used.close = "closed")
            => (/\ bq.pendq = <<>>
                /\ bq.busyq = <<>>
                /\ \A r \in 1..nreq :
                        (br[r].ret = 0 /\ br[r] # NoReq) => br[r].cbs = 1))

\* closing is set, one worker has exited while a BLOCK slot waits on pendq
\* behind the request another worker still has in flight
C28_Witness ==
    /\ bc.aio_mode = AIO_MODE_THREAD_POOL
    /\ bq.closing
    /\ \E t1, t2 \in Threads :
            /\ thr[t1].pc = "exit"
            /\ thr[t2].pc = "proc"
    /\ \E i \in 1..Len(bq.pendq) : bq.reqs[bq.pendq[i]].status = "BLOCK"

\* C29: once the sub-range lock is released the backend is stopped: every
\* worker has exited or the ring is shut down, and no request is pending,
\* in flight with a worker or owned by the kernel.
C29_UnlockAfterStop ==
    bc.fl = "F_UNLCK" =>
        /\ IF bc.aio_mode = AIO_MODE_THREAD_POOL
           THEN \A t \in Threads : thr[t].pc = "exit"
           ELSE used.close = "closed"
        /\ bq.pendq = <<>>
        /\ bq.busyq = <<>>
        /\ ring.kernel = {}
\* signal elem c is on the list: reachable from blockif_bse_head by next
\* in at most n steps
RECURSIVE OnList(_, _, _)
OnList(c, from, n) ==
    /\ n > 0
    /\ from # NULL
    /\ (from = c \/ OnList(c, sig.bse[from].next, n - 1))

\* C30: blockif_bse_head refers to no elem whose canceller is not in its
\* wait (or about to send the signal); no elem is completed more often than
\* it was pushed; an elem whose canceller waits is on the list or in the
\* hands of a handler that has popped it.
C30_SigElemLifo ==
    /\ sig.head # NULL =>
            (/\ sig.can[sig.head].pc \in {"kill", "wait"}
             /\ sig.bse[sig.head].pending = 1)
    /\ \A c \in Cancellers :
            /\ sig.can[c].pops <= sig.can[c].pushes
            /\ (sig.can[c].pc \in {"kill", "wait"} /\ sig.bse[c].pending = 1)
                    => \/ OnList(c, sig.head, NumCancellers)
                       \/ \E t \in Threads : /\ sig.hdl[t].pc = "done"
                                              /\ sig.hdl[t].bse = c
\* C31: thread pool, nocache, bst_block on: once WRITE A and then WRITE B,
\* which starts where A ends inside a sector, have both been submitted
\* with 0 and have both had their callback with 0, the file holds A's bytes
\* where A wrote and B's bytes where B wrote.
C31_ContiguousWrites ==
    (/\ nreq = 2
     /\ br[1].ret = 0 /\ br[2].ret = 0
     /\ br[1].cbs = 1 /\ br[2].cbs = 1
     /\ br[1].err = <<0>> /\ br[2].err = <<0>>)
        => LET a == Gather(br[1].buf)
               b == used.data
           IN  /\ Slice(disk.bytes, used.at - Len(a), Len(a)) = a
               /\ Slice(disk.bytes, used.at, Len(b)) = b
\* C32: ring: a request every call of which succeeded (its transfer and,
\* for a WRITE, its own sync) has its callback called with 0.
C32_ReapErrorOwn ==
    bc.aio_mode = AIO_MODE_IO_URING =>
        \A r \in ReqIds :
            (br[r].cbs = 1 /\ br[r].fail = <<>>) => br[r].err = <<0>>
\* C33: with bst_block on, every BLOCK slot is blocked by a slot on pendq or
\* busyq that holds a request submitted before its own (a slot blocks a
\* BLOCK slot when its key is the offset of that slot's request), and no
\* set of slots has each of its members blocked by a member.
C33_BlockedHasBlocker ==
    LET Blocks(s1, s2) ==
            /\ s1 # s2
            /\ bq.reqs[s1].status # "FREE"
            /\ bq.reqs[s2].status = "BLOCK"
            /\ bq.reqs[s1].block = br[bq.reqs[s2].req].offset
    IN  bc.bst_block = 1 =>
            /\ \A s \in Slots :
                    bq.reqs[s].status = "BLOCK" =>
                        \E p \in Slots : /\ Blocks(p, s)
                                          /\ bq.reqs[p].req < bq.reqs[s].req
                                          /\ InSeq(p, bq.pendq \o bq.busyq)
            /\ \A S \in SUBSET Slots :
                    S # {} => \E s \in S : \A p \in S : ~Blocks(p, s)

\* C34: a multi-range DISCARD that blockif_process_discard has dealt with
\* had no record stored beyond the last entry of the range table.
C34_DiscardTableBounds ==
    (/\ nreq = 1
     /\ Len(used.req.iov) = 1
     /\ bc.candiscard = 1
     /\ br[1].cbs = 1 \/ Aborted(thr))
        => ~DiscardOverrun(bc, used.req.ranges,
                           used.req.iov[1] \div SizeofRange)

\* C35: when the callback of a WRITE whose data transfer succeeded fires,
\* one fsync has been issued for it if the write cache was off at that
\* moment and none if it was on, and the callback receives what that fsync
\* failed with, or 0.
C35_Writethru ==
    [][LET CallsOf(cs, name) == SelectSeq(cs, LAMBDA x : x[1] = name) IN
       \A r \in ReqIds :
          (/\ br[r].cbs' = br[r].cbs + 1
           /\ CallsOf(br[r].calls', "pwritev") = << <<"pwritev", 0>> >>)
              => \E syncs \in {CallsOf(br[r].calls', "fsync")} :
                    /\ Len(syncs) = (IF bc.wce = 0 THEN 1 ELSE 0)
                    /\ br[r].err' = <<IF syncs = <<>> THEN 0
                                      ELSE syncs[1][2]>>]_vars

\* the write cache was switched off and on again: one WRITE completed with
\* the failure of its fsync, a later one without an fsync
C35_Witness ==
    /\ bc.wce = 1
    /\ \E r1, r2 \in ReqIds :
          /\ r1 < r2
          /\ br[r1].cbs = 1 /\ br[r2].cbs = 1
          /\ br[r1].calls = << <<"pwritev", 0>>, <<"fsync", EIO>> >>
          /\ br[r1].err = <<EIO>>
          /\ br[r2].calls = << <<"pwritev", 0>> >>
          /\ br[r2].err = <<0>>

====
